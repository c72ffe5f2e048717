-------------------------- MODULE RecentMemoryProofs --------------------------
(***************************************************************************)
(* Proofs about RecentMemory, for any number of messages and goroutines    *)
(* and any length of the list.                                             *)
(***************************************************************************)
EXTENDS RecentMemory, SequenceTheorems, TLAPS

Increasing(s) == \A i, j \in 1..Len(s) : i < j => s[i] < s[j]

\* Rows are in the order of their messages, and the message saved last is in
\* the table from its insert on.
TableInv ==
  /\ Increasing(table)
  /\ \A m \in ToSet(table) : m <= last
  /\ at[Loop] = "insert" => last # 0 /\ last \notin ToSet(table)
  /\ at[Loop] \in {"push", "trim"} => last \in ToSet(table)

\* The list holds rows, newest first.
ListInv == NewestFirst(list) /\ ToSet(list) \subseteq ToSet(table)

\* Once pushed, the message saved last is in front of the list.
FrontInv ==
  at[Loop] # "push" /\ last \in ToSet(table) \ missed /\ list # <<>> => Head(list) = last

IInv ==
  /\ TypeOK /\ TableInv /\ ListInv /\ FrontInv
  /\ RecentIsHistory /\ ReadsOwnMessage /\ ListHasNoHoles

-----------------------------------------------------------------------------
(* Prefixes, reversed rows and pushed lists.                               *)

LEMMA SmallerOfTwo ==
  ASSUME NEW n \in Nat, NEW k \in Nat
  PROVE  Min({n, k}) = IF n <= k THEN n ELSE k
BY DEF Min

LEMMA FirstIsPrefix ==
  ASSUME NEW S, NEW s \in Seq(S), NEW n \in Nat
  PROVE  /\ First(s, n) \in Seq(S)
         /\ Len(First(s, n)) = IF n <= Len(s) THEN n ELSE Len(s)
         /\ \A i \in 1..Len(First(s, n)) : First(s, n)[i] = s[i]
<1>1. Len(s) \in Nat
  BY LenProperties
<1> DEFINE k == IF n <= Len(s) THEN n ELSE Len(s)
<1>2. k \in Nat /\ k <= Len(s) /\ First(s, n) = [i \in 1..k |-> s[i]]
  BY <1>1, SmallerOfTwo DEF First
<1>3. \A i \in 1..k : s[i] \in S
  BY <1>1, <1>2, ElementOfSeq
<1> HIDE DEF k
<1>4. [i \in 1..k |-> s[i]] \in Seq(S) /\ Len([i \in 1..k |-> s[i]]) = k
  BY <1>2, <1>3
<1> QED BY <1>2, <1>4 DEF k

LEMMA FirstOfRecent ==
  ASSUME NEW S, NEW s \in Seq(S), NEW n \in Nat
  PROVE  /\ Len(First(s, n)) <= n
         /\ ToSet(First(s, n)) \subseteq ToSet(s)
         /\ NewestFirst(s) => NewestFirst(First(s, n))
         /\ n # 0 /\ s # <<>> => First(s, n) # <<>> /\ Head(First(s, n)) = Head(s)
<1> DEFINE f == First(s, n)
<1>1. Len(s) \in Nat /\ DOMAIN s = 1..Len(s)
  BY LenProperties
<1>2. f \in Seq(S) /\ Len(f) \in Nat /\ Len(f) <= Len(s) /\ Len(f) <= n /\ DOMAIN f = 1..Len(f)
  BY <1>1, FirstIsPrefix, LenProperties
<1>3. \A i \in 1..Len(f) : f[i] = s[i] /\ i \in 1..Len(s)
  BY <1>1, <1>2, FirstIsPrefix
<1>4. n # 0 /\ s # <<>> => Len(f) > 0
  BY <1>1, FirstIsPrefix, EmptySeq
<1> HIDE DEF f
<1>5. ToSet(f) \subseteq ToSet(s)
  BY <1>1, <1>2, <1>3 DEF ToSet
<1>6. NewestFirst(s) => NewestFirst(f)
  BY <1>3 DEF NewestFirst
<1>7. n # 0 /\ s # <<>> => f # <<>> /\ Head(f) = Head(s)
  BY <1>1, <1>2, <1>3, <1>4
<1> QED BY <1>2, <1>5, <1>6, <1>7 DEF f

LEMMA RowsReversed ==
  ASSUME NEW s \in Seq(Nat), Increasing(s)
  PROVE  /\ Reverse(s) \in Seq(Nat)
         /\ ToSet(Reverse(s)) = ToSet(s)
         /\ NewestFirst(Reverse(s))
         /\ \A m \in ToSet(s) : (\A k \in ToSet(s) : k <= m)
              => Reverse(s) # <<>> /\ Head(Reverse(s)) = m
<1> DEFINE r == Reverse(s)
<1>1. Len(s) \in Nat /\ DOMAIN s = 1..Len(s) /\ \A i \in 1..Len(s) : s[i] \in Nat
  BY LenProperties, ElementOfSeq
<1>2. r = [i \in 1..Len(s) |-> s[(Len(s) - i) + 1]]
  BY DEF Reverse
<1>3. /\ r \in Seq(Nat) /\ Len(r) = Len(s) /\ DOMAIN r = 1..Len(s)
      /\ \A i \in 1..Len(s) : r[i] = s[(Len(s) - i) + 1]
  BY <1>1, <1>2
<1>4. \A i \in 1..Len(s) : (Len(s) - i) + 1 \in 1..Len(s) /\ s[i] = r[(Len(s) - i) + 1]
  BY <1>1, <1>3
<1> HIDE DEF r
<1>5. ToSet(r) = ToSet(s)
  <2>1. ToSet(r) \subseteq ToSet(s)
    <3>1. \A i \in 1..Len(s) : r[i] \in ToSet(s)
      BY <1>1, <1>3, <1>4 DEF ToSet
    <3> QED BY <1>3, <3>1 DEF ToSet
  <2>2. ToSet(s) \subseteq ToSet(r)
    <3>1. \A i \in 1..Len(s) : s[i] \in ToSet(r)
      <4> SUFFICES ASSUME NEW i \in 1..Len(s) PROVE s[i] \in ToSet(r)
        OBVIOUS
      <4>1. PICK j \in 1..Len(s) : s[i] = r[j]
        BY <1>4
      <4> QED BY <1>3, <4>1 DEF ToSet
    <3> QED BY <1>1, <3>1 DEF ToSet
  <2> QED BY <2>1, <2>2
<1>6. NewestFirst(r)
  <2> SUFFICES ASSUME NEW i \in 1..Len(r), NEW j \in 1..Len(r), i < j
               PROVE  r[i] >= r[j]
    BY DEF NewestFirst
  <2>1. PICK a \in 1..Len(s), b \in 1..Len(s) :
          a = (Len(s) - i) + 1 /\ b = (Len(s) - j) + 1
    BY <1>3, <1>4
  <2>2. b < a /\ r[i] = s[a] /\ r[j] = s[b]
    BY <1>1, <1>3, <2>1
  <2>3. s[b] < s[a] /\ s[a] \in Nat /\ s[b] \in Nat
    BY <1>1, <2>1, <2>2 DEF Increasing
  <2> QED BY <2>2, <2>3
<1>7. ASSUME NEW m \in ToSet(s), \A k \in ToSet(s) : k <= m
      PROVE  r # <<>> /\ Head(r) = m
  <2>1. PICK i \in 1..Len(s) : m = s[i]
    BY <1>1 DEF ToSet
  <2>2. Len(s) > 0 /\ r[1] = s[Len(s)]
    BY <1>1, <1>3, <2>1
  <2>3. s[Len(s)] \in ToSet(s)
    BY <1>1, <2>2 DEF ToSet
  <2>4. s[Len(s)] = m
    BY <1>1, <1>7, <2>1, <2>2, <2>3 DEF Increasing
  <2> QED BY <1>3, <2>2, <2>4
<1> QED BY <1>3, <1>5, <1>6, <1>7 DEF r

LEMMA PushedInFront ==
  ASSUME NEW s \in Seq(Message), NEW n \in Nat, last \in Message
  PROVE  /\ Pushed(s, n) \in Seq(Message)
         /\ n = 0 => Pushed(s, n) = s
         /\ n # 0 => /\ ToSet(Pushed(s, n)) = ToSet(s) \cup {last}
                     /\ Pushed(s, n) # <<>> /\ Head(Pushed(s, n)) = last
         /\ NewestFirst(s) /\ (\A m \in ToSet(s) : m <= last) => NewestFirst(Pushed(s, n))
<1> DEFINE f == [i \in 1..n |-> last]
           p == f \o s
<1>1. f \in Seq(Message) /\ Len(f) = n /\ \A i \in 1..n : f[i] = last
  OBVIOUS
<1>2. Len(s) \in Nat /\ DOMAIN s = 1..Len(s) /\ \A i \in 1..Len(s) : s[i] \in Message
  BY LenProperties, ElementOfSeq
<1> HIDE DEF f
<1>3. /\ p \in Seq(Message) /\ Len(p) = n + Len(s)
      /\ \A i \in 1..(n + Len(s)) : p[i] = IF i <= n THEN last ELSE s[i - n]
  <2>1. /\ p \in Seq(Message) /\ Len(p) = Len(f) + Len(s)
        /\ \A i \in 1..(Len(f) + Len(s)) : p[i] = IF i <= Len(f) THEN f[i] ELSE s[i - Len(f)]
    BY <1>1, ConcatProperties
  <2> QED BY <1>1, <1>2, <2>1
<1>4. DOMAIN p = 1..(n + Len(s))
  BY <1>3, LenProperties
<1>5. n = 0 => p = s
  BY <1>1, ConcatEmptySeq, EmptySeq
<1>6. Pushed(s, n) = p
  BY DEF Pushed, f
<1> HIDE DEF p
<1>7. \A i \in 1..Len(s) : i + n \in 1..(n + Len(s)) /\ p[i + n] = s[i]
  BY <1>2, <1>3
<1>8. n # 0 => ToSet(p) = ToSet(s) \cup {last} /\ p # <<>> /\ Head(p) = last
  <2> SUFFICES ASSUME n # 0 PROVE ToSet(p) = ToSet(s) \cup {last} /\ p # <<>> /\ Head(p) = last
    OBVIOUS
  <2>1. 1 \in 1..(n + Len(s)) /\ p[1] = last
    BY <1>2, <1>3
  <2>2. ToSet(p) \subseteq ToSet(s) \cup {last}
    BY <1>2, <1>3, <1>4 DEF ToSet
  <2>3. ToSet(s) \cup {last} \subseteq ToSet(p)
    BY <1>2, <1>4, <1>7, <2>1 DEF ToSet
  <2> QED BY <1>2, <1>3, <2>1, <2>2, <2>3
<1>9. NewestFirst(s) /\ (\A m \in ToSet(s) : m <= last) => NewestFirst(p)
  <2> SUFFICES ASSUME NewestFirst(s), \A m \in ToSet(s) : m <= last,
                      NEW i \in 1..Len(p), NEW j \in 1..Len(p), i < j
               PROVE  p[i] >= p[j]
    BY DEF NewestFirst
  <2>1. CASE j <= n
    BY <1>2, <1>3, <2>1 DEF Message
  <2>2. CASE i <= n /\ j > n
    <3>1. p[i] = last /\ p[j] = s[j - n] /\ j - n \in 1..Len(s)
      BY <1>2, <1>3, <2>2
    <3>2. s[j - n] \in ToSet(s)
      BY <1>2, <3>1 DEF ToSet
    <3> QED BY <3>1, <3>2, <1>2 DEF Message
  <2>3. CASE i > n
    <3>1. /\ p[i] = s[i - n] /\ i - n \in 1..Len(s)
          /\ p[j] = s[j - n] /\ j - n \in 1..Len(s) /\ i - n < j - n
      BY <1>2, <1>3, <2>3
    <3> QED BY <3>1 DEF NewestFirst
  <2> QED BY <1>3, <1>2, <2>1, <2>2, <2>3
<1> QED BY <1>3, <1>5, <1>6, <1>8, <1>9

LEMMA RowAppended ==
  ASSUME NEW S, NEW s \in Seq(S), NEW b \in S
  PROVE  /\ Append(s, b) \in Seq(S)
         /\ ToSet(Append(s, b)) = ToSet(s) \cup {b}
         /\ S \subseteq Nat /\ Increasing(s) /\ (\A m \in ToSet(s) : m < b)
              => Increasing(Append(s, b))
<1>1. /\ Append(s, b) \in Seq(S) /\ Len(Append(s, b)) = Len(s) + 1
      /\ \A i \in 1..Len(s) : Append(s, b)[i] = s[i]
      /\ Append(s, b)[Len(s) + 1] = b
  BY AppendProperties
<1>2. Len(s) \in Nat /\ DOMAIN s = 1..Len(s) /\ DOMAIN Append(s, b) = 1..(Len(s) + 1)
  BY <1>1, LenProperties
<1>3. ToSet(Append(s, b)) = ToSet(s) \cup {b}
  BY <1>1, <1>2 DEF ToSet
<1>4. ASSUME Increasing(s), \A m \in ToSet(s) : m < b
      PROVE  Increasing(Append(s, b))
  <2>1. \A i \in 1..Len(s) : s[i] < b
    BY <1>2, <1>4 DEF ToSet
  <2> QED BY <1>1, <1>2, <1>4, <2>1 DEF Increasing
<1> QED BY <1>1, <1>3, <1>4

LEMMA NoMessages == ToSet(<<>>) = {} /\ NewestFirst(<<>>) /\ Increasing(<<>>) /\ Len(<<>>) = 0
BY DEF ToSet, NewestFirst, Increasing

-----------------------------------------------------------------------------
(* What a step does to the table.                                          *)

\* Rows are added for the message saved last only, and never removed.
LEMMA TableGrows ==
  ASSUME IInv, [Next]_vars
  PROVE  \/ UNCHANGED table
         \/ /\ Insert \/ InsertFails
            /\ at[Loop] = "insert" /\ last \in Message
            /\ table' = Append(table, last)
<1>1. CASE Insert \/ InsertFails
  BY <1>1 DEF Insert, InsertFails, Insertable, Go, IInv, TypeOK, TableInv, Message
<1>2. CASE UNCHANGED table
  BY <1>2
<1> QED BY <1>1, <1>2 DEF Next, vars, Save, Push, Trim, Recent, RangeFound, RangeMisses,
                          SelectRows, UseRecent, Forget, Crash

LEMMA RowsStay ==
  ASSUME IInv, [Next]_vars
  PROVE  /\ table' \in Seq(Message)
         /\ ToSet(table) \subseteq ToSet(table')
         /\ ToSet(table') \subseteq ToSet(table) \cup {last}
<1>1. table \in Seq(Message)
  BY DEF IInv, TypeOK
<1>2. CASE UNCHANGED table
  BY <1>1, <1>2
<1>3. CASE last \in Message /\ table' = Append(table, last)
  <2>1. ToSet(Append(table, last)) = ToSet(table) \cup {last} /\ Append(table, last) \in Seq(Message)
    BY <1>1, <1>3, RowAppended
  <2> QED BY <1>3, <2>1
<1> QED BY <1>2, <1>3, TableGrows

LEMMA ElementsOf ==
  ASSUME NEW S, NEW s \in Seq(S) PROVE ToSet(s) \subseteq S
BY LenProperties, ElementOfSeq DEF ToSet

\* The message saved last is a message where the event loop saves it.
LEMMA SavesAMessage ==
  ASSUME MemoryAssumption, IInv, at[Loop] \in {"insert", "push", "trim"}
  PROVE  last \in Message
<1>1. ToSet(table) \subseteq Message
  BY ElementsOf DEF IInv, TypeOK
<1> QED BY <1>1 DEF IInv, TypeOK, TableInv, Message, MemoryAssumption

LEMMA TypePreserved ==
  ASSUME MemoryAssumption, IInv, [Next]_vars PROVE TypeOK'
<1>1. table' \in Seq(Message) /\ ToSet(table) \subseteq ToSet(table')
  BY RowsStay
<1> USE DEF IInv, TypeOK
<1>2. CASE Save
  BY <1>1, <1>2 DEF Save, Go, Actor, Message, MemoryAssumption
<1>3. CASE Insert \/ InsertFails
  <2>1. missed' \subseteq ToSet(table')
    <3>1. CASE UNCHANGED missed
      BY <1>1, <3>1
    <3>2. CASE table' = Append(table, last) /\ missed' = missed \cup {last} /\ last \in Message
      BY <3>2, RowAppended
    <3> QED BY <1>3, <3>1, <3>2, SavesAMessage DEF Insert, InsertFails, Go
  <2> QED BY <1>1, <1>3, <2>1 DEF Insert, InsertFails, Go, Actor, MemoryAssumption
<1>4. CASE Push
  <2>1. PICK n \in 0..MaxPushes : list' = Pushed(list, n)
    BY <1>4 DEF Push
  <2>2. n \in Nat
    BY <2>1 DEF MemoryAssumption
  <2>3. last \in Message /\ last \in ToSet(table)
    BY <1>4, SavesAMessage DEF Push, Go, TableInv
  <2>4. list' \in Seq(Message)
    BY <2>1, <2>2, <2>3, PushedInFront
  <2>5. missed' \subseteq ToSet(table')
    BY <1>4, <2>3 DEF Push
  <2> QED BY <1>1, <1>4, <2>4, <2>5 DEF Push, Go, Actor, MemoryAssumption
<1>5. CASE Trim
  <2>1. list' \in Seq(Message)
    BY <1>5, FirstIsPrefix DEF Trim, Kept, MemoryAssumption
  <2> QED BY <1>1, <1>5, <2>1 DEF Trim, Go, Actor, MemoryAssumption
<1>6. ASSUME NEW a \in Actor,
             Recent(a) \/ RangeFound(a) \/ RangeMisses(a) \/ SelectRows(a) \/ UseRecent(a)
      PROVE  TypeOK'
  <2>1. First(list, Limit) \in Seq(Message) /\ NewestRows \in Seq(Message)
    <3>1. Limit \in Nat
      BY DEF MemoryAssumption
    <3>2. table \in Seq(Nat)
      BY SeqMonotonic DEF Message
    <3>3. Reverse(table) \in Seq(Message)
      <4>1. \A i \in 1..Len(table) : table[(Len(table) - i) + 1] \in Message
        BY LenProperties, ElementOfSeq
      <4> QED BY <4>1, LenProperties DEF Reverse
    <3> QED BY <3>1, <3>3, FirstIsPrefix DEF NewestRows
  <2>2. got' \in [Actor -> Seq(Message)]
    BY <1>6, <2>1, EmptySeq DEF Recent, RangeFound, RangeMisses, SelectRows, UseRecent, Answer
  <2> QED BY <1>1, <1>6, <2>2 DEF Recent, RangeFound, RangeMisses, SelectRows, UseRecent, Go,
                                 MemoryAssumption, Actor
<1>7. CASE Forget
  BY <1>1, <1>7, EmptySeq DEF Forget
<1>8. CASE Crash
  <2>1. missed' \subseteq ToSet(table')
    BY <1>8 DEF Crash, TableInv
  <2> QED BY <1>1, <1>8, <2>1 DEF Crash, Actor
<1>9. CASE UNCHANGED vars
  BY <1>9 DEF vars
<1> QED BY <1>2, <1>3, <1>4, <1>5, <1>6, <1>7, <1>8, <1>9 DEF Next

LEMMA TablePreserved ==
  ASSUME MemoryAssumption, IInv, [Next]_vars PROVE TableInv'
<1> USE DEF IInv, TypeOK
<1>0. ToSet(table) \subseteq Message /\ Message \subseteq Nat
  BY ElementsOf DEF Message
<1>1. CASE Save
  <2>1. last' = last + 1 /\ UNCHANGED table /\ at'[Loop] = "insert" /\ last \in Nat
    BY <1>1 DEF Save, Go, Actor
  <2>2. \A m \in ToSet(table) : m <= last /\ m \in Nat
    BY <1>0 DEF TableInv
  <2>3. Increasing(table)'
    BY <2>1 DEF TableInv, Increasing
  <2>4. last' # 0 /\ last' \notin ToSet(table') /\ \A m \in ToSet(table') : m <= last'
    BY <2>1, <2>2
  <2> QED BY <2>1, <2>3, <2>4 DEF TableInv
<1>2. ASSUME Insert \/ InsertFails, table' = Append(table, last), last \in Message,
             at[Loop] = "insert"
      PROVE  TableInv'
  <2>1. ToSet(table') = ToSet(table) \cup {last}
    BY <1>2, RowAppended
  <2>2. \A m \in ToSet(table) : m \in Message /\ m < last
    <3>1. \A m \in ToSet(table) : m <= last /\ m # last
      BY <1>2 DEF TableInv
    <3>2. \A m \in ToSet(table) : m \in Message /\ m \in Nat
      BY <1>0
    <3>3. last \in Nat
      BY <1>0, <1>2
    <3> QED BY <3>1, <3>2, <3>3
  <2>3. Increasing(table')
    <3>1. Increasing(table) /\ table \in Seq(Message)
      BY DEF TableInv
    <3> QED BY <1>0, <1>2, <2>2, <3>1, RowAppended
  <2>4. UNCHANGED last /\ at'[Loop] # "insert"
    BY <1>2 DEF Insert, InsertFails, Go, Actor
  <2> QED BY <1>2, <2>1, <2>2, <2>3, <2>4 DEF TableInv, Message
<1>3. ASSUME UNCHANGED <<table, last>>,
             at'[Loop] = "insert" => at[Loop] = "insert",
             at'[Loop] \in {"push", "trim"} => at[Loop] \in {"push", "trim"}
      PROVE  TableInv'
  BY <1>3 DEF TableInv, Increasing
<1>4. CASE InsertFails /\ UNCHANGED table
  BY <1>3, <1>4 DEF InsertFails, Go, Actor
<1>5. CASE Push \/ Trim
  BY <1>3, <1>5 DEF Push, Trim, Go, Actor
<1>6. ASSUME NEW a \in Actor,
             Recent(a) \/ RangeFound(a) \/ RangeMisses(a) \/ SelectRows(a) \/ UseRecent(a)
      PROVE  TableInv'
  BY <1>3, <1>6 DEF Recent, RangeFound, RangeMisses, SelectRows, UseRecent, Go, Actor
<1>7. CASE Forget \/ Crash \/ UNCHANGED vars
  BY <1>3, <1>7 DEF Forget, Crash, vars, Actor
<1>8. CASE Insert
  BY <1>2, <1>8, SavesAMessage DEF Insert, Go
<1> QED BY <1>1, <1>2, <1>4, <1>5, <1>6, <1>7, <1>8, TableGrows DEF Next

-----------------------------------------------------------------------------
(* The list.                                                               *)

\* What a push makes of the list.
LEMMA PushStep ==
  ASSUME MemoryAssumption, IInv, Push
  PROVE  /\ last \in ToSet(table) /\ UNCHANGED <<last, table>>
         /\ NewestFirst(list')
         /\ \/ UNCHANGED list /\ missed' = missed \cup {last}
            \/ /\ UNCHANGED missed /\ ToSet(list') = ToSet(list) \cup {last}
               /\ list' # <<>> /\ Head(list') = last
<1>1. PICK n \in 0..MaxPushes :
        list' = Pushed(list, n) /\ missed' = IF n = 0 THEN missed \cup {last} ELSE missed
  BY DEF Push
<1>2. n \in Nat
  BY <1>1 DEF MemoryAssumption
<1>3. last \in Message /\ last \in ToSet(table) /\ list \in Seq(Message)
  BY SavesAMessage DEF Push, Go, IInv, TypeOK, TableInv
<1>4. NewestFirst(list) /\ \A m \in ToSet(list) : m <= last
  BY DEF IInv, ListInv, TableInv
<1>5. NewestFirst(Pushed(list, n))
  BY <1>2, <1>3, <1>4, PushedInFront
<1>6. CASE n = 0
  <2>1. Pushed(list, n) = list
    BY <1>2, <1>3, <1>6, PushedInFront
  <2> QED BY <1>1, <1>3, <1>5, <1>6, <2>1 DEF Push
<1>7. CASE n # 0
  <2>1. /\ ToSet(Pushed(list, n)) = ToSet(list) \cup {last}
        /\ Pushed(list, n) # <<>> /\ Head(Pushed(list, n)) = last
    BY <1>2, <1>3, <1>7, PushedInFront
  <2> QED BY <1>1, <1>3, <1>5, <1>7, <2>1 DEF Push
<1> QED BY <1>6, <1>7

\* The next message has no row yet.
LEMMA SaveIsNew ==
  ASSUME IInv, Save PROVE last' \notin ToSet(table')
<1>1. last' = last + 1 /\ last \in Nat /\ UNCHANGED table
  BY DEF Save, IInv, TypeOK
<1> QED BY <1>1 DEF IInv, TableInv

\* A trim of no list makes none.
LEMMA NothingTrimmed ==
  ASSUME MemoryAssumption, IInv, Trim, list = <<>> PROVE list' = <<>>
<1>1. First(<<>>, Cap) \in Seq(Message) /\ Len(First(<<>>, Cap)) = 0
  <2>1. Cap \in Nat /\ Cap # 0
    BY DEF MemoryAssumption
  <2>2. <<>> \in Seq(Message) /\ Len(<<>>) = 0
    BY EmptySeq
  <2>3. /\ First(<<>>, Cap) \in Seq(Message)
        /\ Len(First(<<>>, Cap)) = IF Cap <= Len(<<>>) THEN Cap ELSE Len(<<>>)
    BY <2>1, <2>2, FirstIsPrefix
  <2> QED BY <2>1, <2>2, <2>3
<1>2. First(<<>>, Cap) = <<>>
  BY <1>1, EmptySeq
<1> QED BY <1>2 DEF Trim, Kept

\* What a trim makes of the list.
LEMMA TrimStep ==
  ASSUME MemoryAssumption, IInv, Trim
  PROVE  /\ NewestFirst(list') /\ ToSet(list') \subseteq ToSet(list)
         /\ \A m \in ToSet(list'), n \in ToSet(list) : m < n => n \in ToSet(list')
         /\ list # <<>> => list' # <<>> /\ Head(list') = Head(list)
<1>1. list \in Seq(Message) /\ Message \subseteq Nat /\ NewestFirst(list)
  BY DEF IInv, TypeOK, ListInv, Message
<1>2. CASE UNCHANGED list
  BY <1>1, <1>2
<1>3. CASE list' = Kept
  <2>1. Cap \in Nat /\ Cap # 0
    BY DEF MemoryAssumption
  <2> DEFINE f == First(list, Cap)
  <2>2. /\ NewestFirst(f) /\ ToSet(f) \subseteq ToSet(list)
        /\ list # <<>> => f # <<>> /\ Head(f) = Head(list)
    BY <1>1, <2>1, FirstOfRecent
  <2>3. /\ f \in Seq(Message) /\ Len(f) = IF Cap <= Len(list) THEN Cap ELSE Len(list)
        /\ \A i \in 1..Len(f) : f[i] = list[i]
    BY <1>1, <2>1, FirstIsPrefix
  <2>4. /\ Len(f) \in Nat /\ DOMAIN f = 1..Len(f)
        /\ Len(list) \in Nat /\ DOMAIN list = 1..Len(list)
        /\ \A i \in 1..Len(list) : list[i] \in Nat
    BY <1>1, <2>3, LenProperties, ElementOfSeq
  <2> HIDE DEF f
  <2>5. ASSUME NEW m \in ToSet(f), NEW n \in ToSet(list), m < n
        PROVE  n \in ToSet(f)
    <3>1. PICK i \in 1..Len(f) : m = f[i]
      BY <2>4 DEF ToSet
    <3>2. PICK j \in 1..Len(list) : n = list[j]
      BY <2>4 DEF ToSet
    <3>3. i \in 1..Len(list) /\ m = list[i]
      BY <2>1, <2>3, <2>4, <3>1
    <3>4. ~(i <= j)
      <4> SUFFICES ASSUME i <= j PROVE FALSE
        OBVIOUS
      <4>0. Len(list) \in Nat /\ i \in Nat /\ j \in Nat
        BY <2>4, <3>2, <3>3
      <4>1. CASE i = j
        BY <2>4, <2>5, <3>2, <3>3, <4>1
      <4>2. CASE i < j
        <5>1. list[i] >= list[j]
          BY <1>1, <3>2, <3>3, <4>2 DEF NewestFirst
        <5> QED BY <5>1, <2>4, <2>5, <3>2, <3>3
      <4> QED BY <4>0, <4>1, <4>2
    <3>5. j \in 1..Len(f)
      BY <2>4, <3>1, <3>2, <3>4
    <3>6. n = f[j]
      BY <2>3, <3>2, <3>5
    <3> QED BY <2>4, <3>5, <3>6 DEF ToSet
  <2>6. list' = f
    BY <1>3 DEF Kept, f
  <2> QED BY <2>2, <2>5, <2>6
<1> QED BY <1>2, <1>3 DEF Trim

LEMMA ListPreserved ==
  ASSUME MemoryAssumption, IInv, [Next]_vars PROVE ListInv' /\ FrontInv'
<1>1. ToSet(table) \subseteq ToSet(table') /\ ToSet(table') \subseteq ToSet(table) \cup {last}
  BY RowsStay
<1>2. ListInv /\ FrontInv /\ TableInv
  BY DEF IInv
<1>3. CASE Push
  <2>1. ListInv'
    BY <1>2, <1>3, PushStep DEF ListInv
  <2>2. FrontInv'
    BY <1>3, PushStep DEF FrontInv
  <2> QED BY <2>1, <2>2
<1>4. CASE Trim
  <2>1. UNCHANGED <<last, table, missed>> /\ at[Loop] # "push"
    BY <1>4 DEF Trim, Go
  <2>2. list' # <<>> => list # <<>>
    BY <1>4, NothingTrimmed
  <2>3. ListInv'
    BY <1>2, <1>4, <2>1, TrimStep DEF ListInv
  <2>4. FrontInv'
    BY <1>2, <1>4, <2>1, <2>2, TrimStep DEF FrontInv
  <2> QED BY <2>3, <2>4
<1>5. CASE Forget
  <2>1. list' = <<>>
    BY <1>5 DEF Forget
  <2>2. NewestFirst(list') /\ ToSet(list') = {}
    BY <2>1, NoMessages
  <2> QED BY <2>1, <2>2 DEF ListInv, FrontInv
<1>6. CASE UNCHANGED list
  <2>1. ListInv'
    BY <1>1, <1>2, <1>6 DEF ListInv
  <2> SUFFICES FrontInv'
    BY <2>1
  <2>2. CASE Save
    BY <1>2, <2>2, SaveIsNew DEF Save, FrontInv
  <2>3. CASE Insert
    BY <2>3 DEF Insert, Go, FrontInv, IInv, TypeOK, Actor
  <2>4. CASE InsertFails
    BY <1>2, <1>6, <2>4 DEF InsertFails, Go, FrontInv, TableInv
  <2>5. CASE Crash
    BY <1>2, <1>6, <2>5 DEF Crash, FrontInv
  <2>6. ASSUME UNCHANGED <<last, table, missed>>, at'[Loop] # "push" => at[Loop] # "push"
        PROVE  FrontInv'
    BY <1>2, <1>6, <2>6 DEF FrontInv
  <2>7. ASSUME NEW a \in Actor,
               Recent(a) \/ RangeFound(a) \/ RangeMisses(a) \/ SelectRows(a) \/ UseRecent(a)
        PROVE  FrontInv'
    BY <2>6, <2>7 DEF Recent, RangeFound, RangeMisses, SelectRows, UseRecent, Go, IInv, TypeOK,
                      Actor
  <2>8. CASE UNCHANGED vars
    BY <2>6, <2>8 DEF vars
  <2> QED BY <2>2, <2>3, <2>4, <2>5, <2>7, <2>8, <1>3, <1>4, <1>5 DEF Next
<1>7. Push \/ Trim \/ Forget \/ UNCHANGED list
  BY DEF Next, vars, Save, Insert, InsertFails, Recent, RangeFound, RangeMisses, SelectRows,
         UseRecent, Crash
<1> QED BY <1>3, <1>4, <1>5, <1>6, <1>7

\* The list has no holes but rows that were not pushed yet.
LEMMA HolesPreserved ==
  ASSUME MemoryAssumption, IInv, [Next]_vars PROVE ListHasNoHoles'
<1>1. ListHasNoHoles /\ ListInv /\ TableInv
  BY DEF IInv
<1>2. ToSet(table') \subseteq ToSet(table) \cup {last}
  BY RowsStay
<1>3. CASE Push
  <2>1. Unpushed = missed \cup {last} /\ Unpushed' = missed'
    BY <1>3 DEF Unpushed, Push, Go, IInv, TypeOK, Actor
  <2>2. ToSet(table) \subseteq Nat /\ last \in ToSet(table)
    BY <1>3, PushStep, ElementsOf DEF IInv, TypeOK, Message
  <2>3. \A n \in ToSet(table) : n <= last /\ ~(last < n)
    BY <1>1, <2>2 DEF TableInv
  <2> QED BY <1>1, <1>3, <2>1, <2>3, PushStep DEF ListHasNoHoles
<1>4. CASE Trim
  <2>1. UNCHANGED table /\ Unpushed' = Unpushed
    BY <1>4 DEF Unpushed, Trim, Go, IInv, TypeOK, Actor
  <2> QED BY <1>1, <1>4, <2>1, TrimStep DEF ListHasNoHoles
<1>5. CASE Forget
  BY <1>5, NoMessages DEF Forget, ListHasNoHoles
<1>6. ASSUME UNCHANGED list, ToSet(table') \ Unpushed' \subseteq ToSet(table) \ Unpushed
      PROVE  ListHasNoHoles'
  BY <1>1, <1>6 DEF ListHasNoHoles
<1>7. CASE Insert
  <2>1. Unpushed' = missed \cup {last} /\ Unpushed = missed /\ UNCHANGED list
    BY <1>7 DEF Unpushed, Insert, Go, IInv, TypeOK, Actor
  <2> QED BY <1>2, <1>6, <2>1
<1>8. CASE InsertFails
  <2>1. Unpushed' = missed' /\ Unpushed = missed /\ UNCHANGED list
    BY <1>8 DEF Unpushed, InsertFails, Go, IInv, TypeOK, Actor
  <2> QED BY <1>2, <1>6, <1>8, <2>1 DEF InsertFails
<1>9. CASE Crash
  <2>1. Unpushed' = Unpushed /\ UNCHANGED <<list, table>>
    BY <1>9 DEF Unpushed, Crash, Actor
  <2> QED BY <1>6, <2>1
<1>10. CASE Save
  <2>1. Unpushed' = Unpushed /\ UNCHANGED <<list, table>>
    BY <1>10 DEF Unpushed, Save, Go, IInv, TypeOK, Actor
  <2> QED BY <1>6, <2>1
<1>11. ASSUME NEW a \in Actor,
              Recent(a) \/ RangeFound(a) \/ RangeMisses(a) \/ SelectRows(a) \/ UseRecent(a)
       PROVE  ListHasNoHoles'
  <2>1. Unpushed' = Unpushed /\ UNCHANGED <<list, table>>
    BY <1>11 DEF Unpushed, Recent, RangeFound, RangeMisses, SelectRows, UseRecent, Go,
                 IInv, TypeOK, Actor
  <2> QED BY <1>6, <2>1
<1>12. CASE UNCHANGED vars
  BY <1>6, <1>12 DEF vars, Unpushed
<1> QED BY <1>3, <1>4, <1>5, <1>7, <1>8, <1>9, <1>10, <1>11, <1>12 DEF Next

-----------------------------------------------------------------------------
(* What the calls of Recent return.                                        *)

\* An answer is of rows, newest first; a list answers if there is one.
LEMMA Answers ==
  ASSUME MemoryAssumption, IInv
  PROVE  /\ Len(First(list, Limit)) <= Limit /\ Len(NewestRows) <= Limit
         /\ ToSet(First(list, Limit)) \subseteq ToSet(table) /\ ToSet(NewestRows) \subseteq ToSet(table)
         /\ NewestFirst(First(list, Limit)) /\ NewestFirst(NewestRows)
         /\ list # <<>> => First(list, Limit) # <<>> /\ Head(First(list, Limit)) = Head(list)
         /\ last \in ToSet(table) => NewestRows # <<>> /\ Head(NewestRows) = last
<1>1. Limit \in Nat /\ Limit # 0
  BY DEF MemoryAssumption
<1>2. list \in Seq(Message) /\ table \in Seq(Nat) /\ Increasing(table)
  BY SeqMonotonic DEF IInv, TypeOK, TableInv, Message
<1>3. /\ Reverse(table) \in Seq(Nat) /\ ToSet(Reverse(table)) = ToSet(table)
      /\ NewestFirst(Reverse(table))
      /\ last \in ToSet(table) => Reverse(table) # <<>> /\ Head(Reverse(table)) = last
  <2>1. \A m \in ToSet(table) : m <= last
    BY DEF IInv, TableInv
  <2> QED BY <1>2, <2>1, RowsReversed
<1>4. ToSet(list) \subseteq ToSet(table) /\ NewestFirst(list)
  BY DEF IInv, ListInv
<1>5. /\ Len(First(list, Limit)) <= Limit
      /\ ToSet(First(list, Limit)) \subseteq ToSet(table)
      /\ NewestFirst(First(list, Limit))
      /\ list # <<>> => First(list, Limit) # <<>> /\ Head(First(list, Limit)) = Head(list)
  BY <1>1, <1>2, <1>4, FirstOfRecent
<1>6. /\ Len(NewestRows) <= Limit
      /\ ToSet(NewestRows) \subseteq ToSet(table)
      /\ NewestFirst(NewestRows)
      /\ last \in ToSet(table) => NewestRows # <<>> /\ Head(NewestRows) = last
  BY <1>1, <1>3, FirstOfRecent DEF NewestRows
<1> QED BY <1>5, <1>6

LEMMA HistoryPreserved ==
  ASSUME MemoryAssumption, IInv, [Next]_vars PROVE RecentIsHistory'
<1>1. RecentIsHistory /\ ToSet(table) \subseteq ToSet(table')
  BY RowsStay DEF IInv
<1>2. ASSUME NEW a \in Actor, NEW s, UNCHANGED table, got' = [got EXCEPT ![a] = s],
             Len(s) <= Limit, ToSet(s) \subseteq ToSet(table), NewestFirst(s)
      PROVE  RecentIsHistory'
  <2>1. \A b \in Actor : got'[b] = IF b = a THEN s ELSE got[b]
    BY <1>2 DEF IInv, TypeOK
  <2> QED BY <1>1, <1>2, <2>1 DEF RecentIsHistory
<1>3. ASSUME NEW a \in Actor, Recent(a) PROVE RecentIsHistory'
  <2>1. Len(<<>>) <= Limit /\ ToSet(<<>>) \subseteq ToSet(table) /\ NewestFirst(<<>>)
    BY NoMessages DEF MemoryAssumption
  <2> QED BY <1>2, <1>3, <2>1 DEF Recent
<1>4. ASSUME NEW a \in Actor, RangeFound(a) PROVE RecentIsHistory'
  BY <1>2, <1>4, Answers DEF RangeFound, Answer
<1>5. ASSUME NEW a \in Actor, SelectRows(a) PROVE RecentIsHistory'
  BY <1>2, <1>5, Answers DEF SelectRows, Answer
<1>6. CASE UNCHANGED got
  BY <1>1, <1>6 DEF RecentIsHistory
<1> QED BY <1>3, <1>4, <1>5, <1>6 DEF Next, vars, Save, Insert, InsertFails, Push, Trim,
                                      RangeMisses, UseRecent, Forget, Crash

LEMMA OwnMessagePreserved ==
  ASSUME MemoryAssumption, IInv, [Next]_vars PROVE ReadsOwnMessage'
<1> SUFFICES ASSUME at'[Loop] = "done"
             PROVE  last' \in ToSet(table') \ missed' => got'[Loop] # <<>> /\ Head(got'[Loop]) = last'
  BY DEF ReadsOwnMessage
<1> USE DEF Go, Actor
<1>1. /\ at \in [Actor -> {"idle", "insert", "push", "trim", "range", "select", "done"}]
      /\ got \in [Actor -> Seq(Message)]
  BY DEF IInv, TypeOK
<1>2. CASE RangeFound(Loop)
  <2>1. UNCHANGED <<last, table, missed>> /\ at[Loop] # "push" /\ list # <<>>
    BY <1>2 DEF RangeFound
  <2>2. got'[Loop] = First(list, Limit)
    BY <1>1, <1>2 DEF RangeFound, Answer
  <2>3. last \in ToSet(table) \ missed => Head(list) = last
    BY <2>1 DEF IInv, FrontInv
  <2> QED BY <2>1, <2>2, <2>3, Answers
<1>3. CASE SelectRows(Loop)
  <2>1. UNCHANGED <<last, table, missed>> /\ got'[Loop] = NewestRows
    BY <1>1, <1>3 DEF SelectRows, Answer
  <2> QED BY <2>1, Answers
<1>4. ASSUME at[Loop] = "done", got'[Loop] = got[Loop], UNCHANGED <<last, table, missed>>
      PROVE  last' \in ToSet(table') \ missed' => got'[Loop] # <<>> /\ Head(got'[Loop]) = last'
  BY <1>4 DEF IInv, ReadsOwnMessage
<1>5. ASSUME NEW a \in Resume,
             Recent(a) \/ RangeFound(a) \/ RangeMisses(a) \/ SelectRows(a) \/ UseRecent(a)
      PROVE  at[Loop] = "done" /\ got'[Loop] = got[Loop] /\ UNCHANGED <<last, table, missed>>
  BY <1>1, <1>5 DEF Recent, RangeFound, RangeMisses, SelectRows, UseRecent, Answer,
                    MemoryAssumption
<1>6. CASE Recent(Loop) \/ RangeMisses(Loop) \/ UseRecent(Loop)
  BY <1>1, <1>6 DEF Recent, RangeMisses, UseRecent
<1>7. CASE Save \/ Insert \/ InsertFails \/ Push \/ Trim \/ Crash
  BY <1>1, <1>7 DEF Save, Insert, InsertFails, Push, Trim, Crash
<1>8. CASE Forget \/ UNCHANGED vars
  BY <1>4, <1>8 DEF Forget, vars
<1> QED BY <1>2, <1>3, <1>4, <1>5, <1>6, <1>7, <1>8 DEF Next

-----------------------------------------------------------------------------
(* The theorems.                                                           *)

\* The inductive invariant of the table and the list.
THEOREM MemoryInvariant == Spec => []IInv
<1>1. Init => IInv
  <2> SUFFICES ASSUME Init PROVE IInv
    OBVIOUS
  <2>1. TypeOK
    BY EmptySeq, NoMessages, MemoryAssumption DEF Init, TypeOK, Actor
  <2>2. TableInv /\ ListInv /\ FrontInv /\ ListHasNoHoles
    BY NoMessages DEF Init, TableInv, ListInv, FrontInv, ListHasNoHoles, Actor
  <2>3. RecentIsHistory /\ ReadsOwnMessage
    BY NoMessages, MemoryAssumption DEF Init, RecentIsHistory, ReadsOwnMessage, Actor,
                                        MemoryAssumption
  <2> QED BY <2>1, <2>2, <2>3 DEF IInv
<1>2. IInv /\ [Next]_vars => IInv'
  BY MemoryAssumption, TypePreserved, TablePreserved, ListPreserved, HolesPreserved,
     HistoryPreserved, OwnMessagePreserved DEF IInv
<1> QED BY <1>1, <1>2, PTL DEF Spec

\* Types; only the event loop is ever saving.
THEOREM MemoryTypeCorrect == Spec => []TypeOK
BY MemoryInvariant, PTL DEF IInv

\* Whether list or table answers, Recent returns saved messages, newest first
\* and at most as many as asked for (memory.go:64-95).
THEOREM RecentIsHistoryCorrect == Spec => []RecentIsHistory
BY MemoryInvariant, PTL DEF IInv

\* A turn finds the message it answers in front of the recent ones, if Save
\* stored and pushed it (runtime.go:213-247).
THEOREM ReadsOwnMessageCorrect == Spec => []ReadsOwnMessage
BY MemoryInvariant, PTL DEF IInv

\* Only rows whose push was lost or is under way are missing between the
\* messages of the list (memory.go:56-59).
THEOREM ListHasNoHolesCorrect == Spec => []ListHasNoHoles
BY MemoryInvariant, PTL DEF IInv
==============================================================================
