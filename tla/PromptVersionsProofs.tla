------------------------- MODULE PromptVersionsProofs -------------------------
(***************************************************************************)
(* Proofs about PromptVersions, for any number of saves, documents and     *)
(* texts.                                                                  *)
(***************************************************************************)
EXTENDS PromptVersions, FiniteSetTheorems, SequenceTheorems, TLAPS

\* A number belongs to one row of a document.
NumbersAreUnique ==
  \A r, s \in rows : r.doc = s.doc /\ r.version = s.version => r = s

\* An inserted row waits to be committed with a number that no row has, and
\* no other inserted row of its document has that number.
CommitInv ==
  \A w \in Writer : stage[w] = "commit" =>
    /\ ~Taken(w)
    /\ \E p \in pending : p.by = w /\ p.doc = doc[w] /\ p.number = number[w]
    /\ \A v \in Writer : stage[v] = "commit" /\ doc[v] = doc[w] /\ number[v] = number[w] => v = w

\* A number taken is at most one beyond the last row.
NumberInv ==
  \A w \in Writer : stage[w] \in {"insert", "commit"} =>
    number[w] \in 1..(Cardinality(RowsOf(doc[w])) + 1)

\* A key holds one object, the one with the text it names.
ObjectInv ==
  /\ \A o \in objects : o = [key |-> <<o.key[1], o.key[2], o.content>>, content |-> o.content]
  /\ \A o, q \in objects : o.key = q.key => o = q

\* The object of a save is there before its transaction begins.
StoredInv ==
  \A w \in Writer : stage[w] \in InTransaction =>
    [key |-> Key(doc[w], guess[w], text[w]), content |-> text[w]] \in objects

IInv ==
  /\ TypeOK
  /\ IsFiniteSet(rows) /\ VersionsAreDense /\ NumbersAreUnique
  /\ CommitInv /\ NumberInv
  /\ ObjectInv /\ StoredInv /\ RowsAreReadable

-----------------------------------------------------------------------------
(* What a step can do to objects and rows.                                 *)

\* Every step but a commit leaves the tables alone.
LEMMA StepOfTables ==
  ASSUME [Next]_vars
  PROVE  \/ UNCHANGED <<documents, rows>>
         \/ \E w \in Writer : Commit(w, "saved") \/ Commit(w, "failed")
BY DEF Next, vars, tableVars, SaveVersion, SaveStep, ListPromptVersions,
  PutVersionedPrompt, PutFails, FindDocument, CreateDocument, DocumentTaken,
  TakeNumber, InsertVersion, VersionTaken, GiveUp, Fail

\* Every step leaves the bucket alone or puts the object of a save.
LEMMA StepOfBucket ==
  ASSUME [Next]_vars
  PROVE  \/ UNCHANGED objects
         \/ \E w \in Writer : stage[w] = "put" /\ Put(w)
BY DEF Next, vars, Go, SaveVersion, SaveStep, ListPromptVersions,
  PutVersionedPrompt, PutFails, FindDocument, CreateDocument, DocumentTaken,
  TakeNumber, InsertVersion, VersionTaken, GiveUp, Fail, Commit

\* Objects are replaced by themselves only: the bucket grows.
LEMMA BucketGrows ==
  ASSUME IInv, [Next]_vars
  PROVE  objects \subseteq objects' /\ ObjectInv'
<1>1. CASE UNCHANGED objects
  BY <1>1 DEF IInv, ObjectInv
<1>2. ASSUME NEW w \in Writer, stage[w] = "put", Put(w)
      PROVE  objects \subseteq objects' /\ ObjectInv'
  <2> DEFINE k == Key(doc[w], guess[w], text[w])
             new == [key |-> k, content |-> text[w]]
  <2>1. objects' = {o \in objects : o.key # k} \cup {new}
    BY <1>2 DEF Put
  <2>2. ASSUME NEW o \in objects, o.key = k
        PROVE  o = new
    <3>1. o.content = text[w]
      BY <2>2 DEF IInv, ObjectInv, Key
    <3> QED BY <3>1, <2>2 DEF IInv, ObjectInv, Key
  <2>3. objects \subseteq objects'
    BY <2>1, <2>2
  <2>4. new = [key |-> <<new.key[1], new.key[2], new.content>>, content |-> new.content]
    BY DEF Key
  <2>5. ObjectInv'
    BY <2>1, <2>4 DEF IInv, ObjectInv
  <2> QED BY <2>3, <2>5
<1> QED BY <1>1, <1>2, StepOfBucket

-----------------------------------------------------------------------------
(* Types.                                                                  *)

LEMMA RowsAreFinite ==
  ASSUME IsFiniteSet(rows), NEW n
  PROVE  IsFiniteSet(RowsOf(n)) /\ Cardinality(RowsOf(n)) \in Nat
BY FS_Subset, FS_CardinalityType DEF RowsOf

\* The latest version is the number of rows.
LEMMA LatestIsCount ==
  ASSUME IsFiniteSet(rows), VersionsAreDense, NEW n \in Name
  PROVE  Latest(n) = Cardinality(RowsOf(n))
<1> DEFINE k == Cardinality(RowsOf(n))
           S == Numbers(n) \cup {0}
<1>1. k \in Nat
  BY RowsAreFinite
<1>2. S = 0..k
  BY <1>1 DEF VersionsAreDense
<1>3. k \in S /\ \A y \in S : k >= y
  BY <1>1, <1>2
<1> HIDE DEF k, S
<1>4. \A x \in S : (\A y \in S : x >= y) => x = k
  BY <1>1, <1>2, <1>3
<1>5. Max(S) = k
  BY <1>3, <1>4 DEF Max
<1> QED BY <1>5 DEF Latest, S, k

LEMMA TypesArePreserved ==
  ASSUME TypeOK, NumberInv, IsFiniteSet(rows), VersionsAreDense, [Next]_vars
  PROVE  TypeOK'
<1> USE DEF TypeOK, Go, Stage, InTransaction, Ended, requestVars, numberVars, tableVars
<1>1. CASE UNCHANGED vars
  BY <1>1 DEF vars
<1>2. ASSUME NEW w \in Writer, NEW n \in Name, NEW c \in Content, SaveVersion(w, n, c)
      PROVE  TypeOK'
  BY <1>2 DEF SaveVersion
<1>3. ASSUME NEW w \in Writer, Latest(doc[w]) \in Nat, ListPromptVersions(w) \/ TakeNumber(w)
      PROVE  TypeOK'
  <2> DEFINE top == Latest(doc[w]) + 1
  <2>1. top \in Nat
    BY <1>3
  <2> HIDE DEF top
  <2>2. CASE Go(w, "list", "put") /\ guess' = [guess EXCEPT ![w] = top]
             /\ UNCHANGED <<requestVars, number, objects, tableVars>>
    BY <2>1, <2>2
  <2>3. CASE Go(w, "take", "insert") /\ number' = [number EXCEPT ![w] = top]
             /\ UNCHANGED <<requestVars, guess, objects, tableVars>>
    BY <2>1, <2>3
  <2> QED BY <1>3, <2>2, <2>3 DEF ListPromptVersions, TakeNumber, top
<1>4. ASSUME NEW w \in Writer, PutVersionedPrompt(w) \/ PutFails(w) \/ FindDocument(w)
      PROVE  TypeOK'
  BY <1>4 DEF PutVersionedPrompt, PutFails, FindDocument
<1>5. ASSUME NEW w \in Writer, CreateDocument(w)
      PROVE  TypeOK'
  BY <1>5 DEF CreateDocument, Insert
<1>6. ASSUME NEW w \in Writer, InsertVersion(w)
      PROVE  TypeOK'
  BY <1>6 DEF InsertVersion, Insert
<1>7. ASSUME NEW w \in Writer, NEW from \in {"list"} \cup InTransaction, Fail(w, from)
      PROVE  TypeOK'
  BY <1>7 DEF Fail, Rollback, Own
<1>8. ASSUME NEW w \in Writer, NEW answer \in Ended, Commit(w, answer)
      PROVE  TypeOK'
  <2>1. number[w] \in Nat \ {0} /\ doc[w] \in Name /\ text[w] \in Content
    BY <1>8, RowsAreFinite DEF NumberInv, Commit
  <2>2. \A r \in rows' :
          r.id \in Writer /\ r.doc \in documents' /\ r.content \in Content /\ r.version \in Nat \ {0}
    BY <2>1, <1>8 DEF Commit, RowOf
  <2>3. \A p \in pending' : p \in pending /\ p.by # w
    BY <1>8 DEF Commit, Own
  <2> QED BY <2>1, <2>2, <2>3, <1>8 DEF Commit
<1>9. \A w \in Writer : stage[w] # "idle" => Latest(doc[w]) \in Nat
  BY LatestIsCount, RowsAreFinite
<1> QED BY <1>1, <1>2, <1>3, <1>4, <1>5, <1>6, <1>7, <1>8, <1>9
     DEF Next, SaveStep, GiveUp, DocumentTaken, VersionTaken, ListPromptVersions, TakeNumber

-----------------------------------------------------------------------------
(* Versions.                                                               *)

\* A commit adds the next row of its document.
LEMMA CommitAddsNext ==
  ASSUME IInv, NEW w \in Writer, NEW answer, Commit(w, answer)
  PROVE  /\ number[w] = Cardinality(RowsOf(doc[w])) + 1
         /\ IsFiniteSet(rows') /\ VersionsAreDense' /\ NumbersAreUnique'
         /\ \A n \in Name : Cardinality(RowsOf(n)') =
              IF n = doc[w] THEN Cardinality(RowsOf(n)) + 1 ELSE Cardinality(RowsOf(n))
<1>1. stage[w] = "commit" /\ doc[w] \in Name /\ doc' = doc
  BY DEF Commit, Go, IInv, TypeOK, requestVars
<1>2. PICK d \in Name : d = doc[w]
  BY <1>1
<1>3. PICK new : new = RowOf(w)
  OBVIOUS
<1> DEFINE k == Cardinality(RowsOf(d))
<1>4. rows' = rows \cup {new} /\ new.doc = d /\ new.version = number[w]
  BY <1>2, <1>3 DEF Commit, RowOf
<1>5. k \in Nat /\ IsFiniteSet(RowsOf(d))
  BY RowsAreFinite DEF IInv
<1>6. number[w] \notin 1..k /\ number[w] \in 1..(k + 1)
  BY <1>1, <1>2 DEF IInv, CommitInv, Taken, VersionsAreDense, NumberInv
<1>7. number[w] = k + 1
  BY <1>5, <1>6
<1>8. IsFiniteSet(rows')
  BY <1>4, FS_AddElement DEF IInv
<1>9. new \notin RowsOf(d)
  BY <1>1, <1>2, <1>4 DEF IInv, CommitInv, Taken, Numbers
<1>10. \A n \in Name : RowsOf(n)' = IF n = d THEN RowsOf(n) \cup {new} ELSE RowsOf(n)
  BY <1>4 DEF RowsOf
<1>11. Cardinality(RowsOf(d)') = k + 1
  <2>1. RowsOf(d)' = RowsOf(d) \cup {new}
    BY <1>10
  <2> QED BY <2>1, <1>5, <1>9, FS_AddElement
<1>12. \A n \in Name : Numbers(n)' = IF n = d THEN Numbers(n) \cup {k + 1} ELSE Numbers(n)
  BY <1>4, <1>7, <1>10 DEF Numbers
<1>13. VersionsAreDense'
  <2>1. 1..(k + 1) = (1..k) \cup {k + 1}
    BY <1>5
  <2>2. Numbers(d)' = 1..Cardinality(RowsOf(d)')
    BY <2>1, <1>11, <1>12 DEF IInv, VersionsAreDense
  <2>3. ASSUME NEW n \in Name, n # d
        PROVE  Numbers(n)' = 1..Cardinality(RowsOf(n)')
    BY <2>3, <1>10, <1>12 DEF IInv, VersionsAreDense
  <2> QED BY <2>2, <2>3 DEF VersionsAreDense
<1>14. NumbersAreUnique'
  <2>1. \A r \in rows : r.doc = d => r.version # number[w]
    BY <1>1, <1>2 DEF IInv, CommitInv, Taken, Numbers, RowsOf
  <2> QED BY <2>1, <1>4 DEF IInv, NumbersAreUnique
<1>15. \A n \in Name : Cardinality(RowsOf(n)') =
         IF n = doc[w] THEN Cardinality(RowsOf(n)) + 1 ELSE Cardinality(RowsOf(n))
  BY <1>2, <1>10, <1>11
<1> QED BY <1>2, <1>7, <1>8, <1>13, <1>14, <1>15

LEMMA VersionsArePreserved ==
  ASSUME IInv, [Next]_vars
  PROVE  IsFiniteSet(rows') /\ VersionsAreDense' /\ NumbersAreUnique'
<1>1. CASE UNCHANGED <<documents, rows>>
  BY <1>1 DEF IInv, VersionsAreDense, NumbersAreUnique, Numbers, RowsOf
<1> QED BY <1>1, StepOfTables, CommitAddsNext

\* Documents only grow, so a number taken stays within reach.
LEMMA NumbersStayNext ==
  ASSUME IInv, [Next]_vars
  PROVE  NumberInv'
<1> USE DEF Go, Stage, InTransaction, Ended, requestVars, numberVars, tableVars
<1>0. \A n \in Name : Cardinality(RowsOf(n)) \in Nat
  BY RowsAreFinite DEF IInv
<1>1. \A w \in Writer : stage[w] # "idle" => doc[w] \in Name
  BY DEF IInv, TypeOK
<1>2. ASSUME NEW w \in Writer, NEW answer \in Ended, Commit(w, answer)
      PROVE  NumberInv'
  <2>1. ASSUME NEW v \in Writer, stage'[v] \in {"insert", "commit"}
        PROVE  number'[v] \in 1..(Cardinality(RowsOf(doc[v]))' + 1)
    <3>1. stage[v] \in {"insert", "commit"} /\ doc' = doc /\ number' = number
      BY <1>2, <2>1 DEF Commit, IInv, TypeOK
    <3>2. PICK n \in Name : n = doc[v]
      BY <3>1, <1>1
    <3>3. number[v] \in 1..(Cardinality(RowsOf(n)) + 1)
      BY <3>1, <3>2 DEF IInv, NumberInv
    <3>4. Cardinality(RowsOf(n)') \in {Cardinality(RowsOf(n)), Cardinality(RowsOf(n)) + 1}
      BY <1>2, CommitAddsNext
    <3>5. Cardinality(RowsOf(n)) \in Nat
      BY <1>0
    <3>6. number[v] \in 1..(Cardinality(RowsOf(n)') + 1)
      BY <3>3, <3>4, <3>5
    <3>7. RowsOf(n)' = RowsOf(doc[v])'
      BY <3>1, <3>2
    <3> QED BY <3>1, <3>6, <3>7
  <2> QED BY <2>1 DEF NumberInv
<1>3. CASE UNCHANGED <<documents, rows>>
  <2>1. \A n : RowsOf(n)' = RowsOf(n)
    BY <1>3 DEF RowsOf
  <2>2. ASSUME NEW w \in Writer, TakeNumber(w)
        PROVE  NumberInv'
    <3> DEFINE top == Latest(doc[w]) + 1
    <3>1. top \in 1..(Cardinality(RowsOf(doc[w])) + 1)
      BY <2>2, <1>0, <1>1, LatestIsCount DEF TakeNumber, IInv
    <3> HIDE DEF top
    <3>2. number' = [number EXCEPT ![w] = top] /\ doc' = doc
      BY <2>2 DEF TakeNumber, top
    <3>3. ASSUME NEW v \in Writer, stage'[v] \in {"insert", "commit"}
          PROVE  number'[v] \in 1..(Cardinality(RowsOf(doc[v])) + 1)
      <4>1. CASE v = w
        BY <4>1, <3>1, <3>2 DEF IInv, TypeOK
      <4>2. CASE v # w
        <5>1. stage[v] \in {"insert", "commit"} /\ number'[v] = number[v]
          BY <4>2, <3>2, <3>3, <2>2 DEF TakeNumber, IInv, TypeOK
        <5> QED BY <5>1 DEF IInv, NumberInv
      <4> QED BY <4>1, <4>2
    <3> QED BY <2>1, <3>2, <3>3 DEF NumberInv
  <2>3. ASSUME UNCHANGED number,
               \A v \in Writer : stage'[v] \in {"insert", "commit"} =>
                 stage[v] \in {"insert", "commit"} /\ doc'[v] = doc[v]
        PROVE  NumberInv'
    BY <2>1, <2>3 DEF IInv, NumberInv
  <2>4. CASE UNCHANGED vars
    BY <2>3, <2>4 DEF vars
  <2>5. ASSUME NEW w \in Writer,
               \/ \E n \in Name, c \in Content : SaveVersion(w, n, c)
               \/ ListPromptVersions(w) \/ PutVersionedPrompt(w) \/ PutFails(w)
               \/ FindDocument(w) \/ CreateDocument(w) \/ InsertVersion(w)
               \/ \E from \in {"list"} \cup InTransaction : Fail(w, from)
        PROVE  NumberInv'
    BY <2>3, <2>5 DEF SaveVersion, ListPromptVersions, PutVersionedPrompt, PutFails,
         FindDocument, CreateDocument, InsertVersion, Fail, IInv, TypeOK
  <2> QED BY <1>2, <2>2, <2>4, <2>5 DEF Next, SaveStep, GiveUp, DocumentTaken, VersionTaken
<1> QED BY <1>2, <1>3, StepOfTables DEF Next, SaveStep

\* An inserted row keeps its number to itself until it is committed.
LEMMA CommitsArePreserved ==
  ASSUME IInv, [Next]_vars
  PROVE  CommitInv'
<1> USE DEF Go, Stage, InTransaction, Ended, requestVars, numberVars, tableVars
<1>1. ASSUME NEW w \in Writer, InsertVersion(w)
      PROVE  CommitInv'
  <2>1. /\ \A n : Numbers(n)' = Numbers(n)
        /\ number' = number /\ doc' = doc /\ pending \subseteq pending'
    BY <1>1 DEF InsertVersion, Insert, Numbers, RowsOf
  <2>2. \A v \in Writer \ {w} : stage'[v] = stage[v]
    BY <1>1 DEF InsertVersion, IInv, TypeOK
  <2>3. /\ ~Taken(w)
        /\ [by |-> w, doc |-> doc[w], number |-> number[w]] \in pending'
    BY <1>1 DEF InsertVersion, Insert
  <2>4. \A v \in Writer \ {w} : stage[v] = "commit" => ~(doc[v] = doc[w] /\ number[v] = number[w])
    BY <1>1 DEF InsertVersion, Waits, Own, IInv, CommitInv
  <2>5. \A v \in Writer : Taken(v)' <=> Taken(v)
    BY <2>1 DEF Taken
  <2> QED BY <2>1, <2>2, <2>3, <2>4, <2>5 DEF CommitInv, IInv
<1>2. ASSUME NEW w \in Writer, NEW answer \in Ended, Commit(w, answer)
      PROVE  CommitInv'
  <2>1. /\ number' = number /\ doc' = doc /\ rows' = rows \cup {RowOf(w)}
        /\ \A p \in pending : p.by # w => p \in pending'
    BY <1>2 DEF Commit, Own
  <2>2. \A v \in Writer : stage'[v] = "commit" => v # w /\ stage[v] = "commit"
    BY <1>2 DEF Commit, IInv, TypeOK
  <2>3. \A v \in Writer : stage'[v] = "commit" => ~(doc[v] = doc[w] /\ number[v] = number[w])
    BY <2>2, <1>2 DEF Commit, IInv, CommitInv
  <2>4. ASSUME NEW v \in Writer, stage'[v] = "commit"
        PROVE  ~Taken(v)'
    <3>1. ~Taken(v)
      BY <2>2, <2>4 DEF IInv, CommitInv
    <3> QED BY <3>1, <2>1, <2>3, <2>4 DEF Taken, Numbers, RowsOf, RowOf
  <2> QED BY <2>1, <2>2, <2>4 DEF CommitInv, IInv
<1>3. ASSUME UNCHANGED <<documents, rows>>,
             \A v \in Writer : stage'[v] = "commit" =>
               /\ stage[v] = "commit" /\ doc'[v] = doc[v] /\ number'[v] = number[v]
               /\ \A p \in pending : p.by = v => p \in pending'
      PROVE  CommitInv'
  <2>1. \A n : Numbers(n)' = Numbers(n)
    BY <1>3 DEF Numbers, RowsOf
  <2>2. \A v \in Writer : stage'[v] = "commit" => (Taken(v)' <=> Taken(v))
    BY <1>3, <2>1 DEF Taken
  <2> QED BY <1>3, <2>2 DEF CommitInv, IInv
<1>4. CASE UNCHANGED vars
  BY <1>3, <1>4 DEF vars
<1>5. ASSUME NEW w \in Writer,
             \/ \E n \in Name, c \in Content : SaveVersion(w, n, c)
             \/ ListPromptVersions(w) \/ PutVersionedPrompt(w) \/ PutFails(w)
             \/ FindDocument(w) \/ CreateDocument(w) \/ TakeNumber(w)
      PROVE  CommitInv'
  BY <1>3, <1>5 DEF SaveVersion, ListPromptVersions, PutVersionedPrompt, PutFails,
       FindDocument, CreateDocument, TakeNumber, Insert, IInv, TypeOK
<1>6. ASSUME NEW w \in Writer, NEW from \in {"list"} \cup InTransaction, Fail(w, from)
      PROVE  CommitInv'
  BY <1>3, <1>6 DEF Fail, Rollback, Own, IInv, TypeOK
<1> QED BY <1>1, <1>2, <1>4, <1>5, <1>6
     DEF Next, SaveStep, GiveUp, DocumentTaken, VersionTaken

-----------------------------------------------------------------------------
(* Objects.                                                                *)

LEMMA ObjectsAreThere ==
  ASSUME IInv, [Next]_vars
  PROVE  StoredInv'
<1> USE DEF Go, Stage, InTransaction, Ended, requestVars, numberVars, tableVars
<1>1. objects \subseteq objects'
  BY BucketGrows
<1>2. ASSUME NEW w \in Writer, PutVersionedPrompt(w)
      PROVE  StoredInv'
  <2>1. [key |-> Key(doc[w], guess[w], text[w]), content |-> text[w]] \in objects'
    BY <1>2 DEF PutVersionedPrompt, Put
  <2>2. /\ \A v \in Writer \ {w} : stage'[v] = stage[v]
        /\ doc' = doc /\ guess' = guess /\ text' = text
    BY <1>2 DEF PutVersionedPrompt, IInv, TypeOK
  <2> QED BY <2>1, <2>2, <1>1 DEF StoredInv, IInv, Key
<1>3. ASSUME \A v \in Writer : stage'[v] \in InTransaction =>
               /\ stage[v] \in InTransaction
               /\ doc'[v] = doc[v] /\ guess'[v] = guess[v] /\ text'[v] = text[v]
      PROVE  StoredInv'
  BY <1>1, <1>3 DEF StoredInv, IInv, Key
<1>4. CASE UNCHANGED vars
  BY <1>3, <1>4 DEF vars
<1>5. ASSUME NEW w \in Writer,
             \/ \E n \in Name, c \in Content : SaveVersion(w, n, c)
             \/ ListPromptVersions(w) \/ PutFails(w)
      PROVE  StoredInv'
  BY <1>3, <1>5 DEF SaveVersion, ListPromptVersions, PutFails, IInv, TypeOK
<1>6. ASSUME NEW w \in Writer,
             \/ FindDocument(w) \/ CreateDocument(w) \/ TakeNumber(w) \/ InsertVersion(w)
             \/ \E answer \in Ended : Commit(w, answer)
             \/ \E from \in {"list"} \cup InTransaction : Fail(w, from)
      PROVE  StoredInv'
  BY <1>3, <1>6 DEF FindDocument, CreateDocument, TakeNumber, InsertVersion, Commit, Fail, IInv, TypeOK
<1> QED BY <1>2, <1>4, <1>5, <1>6 DEF Next, SaveStep, GiveUp, DocumentTaken, VersionTaken

LEMMA RowsStayReadable ==
  ASSUME IInv, [Next]_vars
  PROVE  RowsAreReadable'
<1>1. objects \subseteq objects'
  BY BucketGrows
<1>2. CASE UNCHANGED <<documents, rows>>
  BY <1>1, <1>2 DEF IInv, RowsAreReadable
<1>3. ASSUME NEW w \in Writer, NEW answer, Commit(w, answer)
      PROVE  RowsAreReadable'
  <2>1. [key |-> Key(doc[w], guess[w], text[w]), content |-> text[w]] \in objects
    BY <1>3 DEF Commit, Go, IInv, StoredInv, InTransaction
  <2>2. rows' = rows \cup {RowOf(w)}
    BY <1>3 DEF Commit
  <2> QED BY <2>1, <2>2, <1>1 DEF IInv, RowsAreReadable, RowOf
<1> QED BY <1>2, <1>3, StepOfTables

-----------------------------------------------------------------------------
LEMMA InvariantHoldsInitially == ASSUME Init PROVE IInv
<1>1. TypeOK
  BY DEF Init, TypeOK, Stage
<1>2. IsFiniteSet(rows) /\ NumbersAreUnique /\ RowsAreReadable
  BY FS_EmptySet DEF Init, NumbersAreUnique, RowsAreReadable
<1>3. VersionsAreDense
  <2>1. \A n \in Name : RowsOf(n) = {} /\ Numbers(n) = {}
    BY DEF Init, RowsOf, Numbers
  <2>2. Cardinality({}) = 0
    BY FS_EmptySet
  <2>3. 1..0 = {}
    OBVIOUS
  <2> QED BY <2>1, <2>2, <2>3 DEF VersionsAreDense
<1>4. CommitInv /\ NumberInv /\ ObjectInv /\ StoredInv
  BY DEF Init, CommitInv, NumberInv, ObjectInv, StoredInv, InTransaction
<1> QED BY <1>1, <1>2, <1>3, <1>4 DEF IInv

LEMMA InvariantIsPreserved == ASSUME IInv, [Next]_vars PROVE IInv'
BY TypesArePreserved, VersionsArePreserved, CommitsArePreserved, NumbersStayNext,
   BucketGrows, ObjectsAreThere, RowsStayReadable DEF IInv

\* The inductive invariant: numbers taken but not committed are held by one
\* transaction each, and objects precede the rows that name them.
THEOREM VersionsInvariant == Spec => []IInv
BY InvariantHoldsInitially, InvariantIsPreserved, PTL DEF Spec

\* Types: only open transactions have uncommitted inserts.
THEOREM VersionsTypeCorrect == Spec => []TypeOK
BY VersionsInvariant, PTL DEF IInv

\* The versions of a document are 1, 2, 3 ..., whatever saves overlap or fail.
THEOREM VersionsAreDenseCorrect == Spec => []VersionsAreDense
<1>1. IInv => VersionsAreDense
  BY DEF IInv
<1> QED BY <1>1, VersionsInvariant, PTL

\* The key of a committed version leads to its own text.
THEOREM RowsAreReadableCorrect == Spec => []RowsAreReadable
<1>1. IInv => RowsAreReadable
  BY DEF IInv
<1> QED BY <1>1, VersionsInvariant, PTL
-----------------------------------------------------------------------------
(* The refinement.                                                         *)

Entries(n) == [v \in Numbers(n) |-> TextOf(n, v)]

\* A client that looks up a number and then its key reads the row's text.
TextsOfRows == \A r \in rows : TextOf(r.doc, r.version) = r.content

LEMMA TextOfRow ==
  ObjectInv /\ NumbersAreUnique /\ RowsAreReadable => TextsOfRows
<1> SUFFICES ASSUME ObjectInv, NumbersAreUnique, RowsAreReadable, NEW r \in rows
             PROVE  TextOf(r.doc, r.version) = r.content
  BY DEF TextsOfRows
<1>1. \A s \in RowsOf(r.doc) : s.version = r.version => s = r
  BY DEF RowsOf, NumbersAreUnique
<1>2. (CHOOSE s \in RowsOf(r.doc) : s.version = r.version) = r
  BY <1>1 DEF RowsOf
<1>3. PICK o \in objects : o.key = r.key /\ o.content = r.content
  BY DEF RowsAreReadable
<1>4. (CHOOSE q \in objects : q.key = r.key) = o
  BY <1>3 DEF ObjectInv
<1> QED BY <1>2, <1>3, <1>4 DEF TextOf, ContentOf

LEMMA TextOfNextRow ==
  (ObjectInv /\ NumbersAreUnique /\ RowsAreReadable => TextsOfRows)'
BY TextOfRow, PTL

\* A version keeps its text.
LEMMA TextStays ==
  ASSUME IInv, IInv', rows \subseteq rows', NEW n, NEW v \in Numbers(n)
  PROVE  TextOf(n, v)' = TextOf(n, v)
<1>1. PICK r \in rows : r.doc = n /\ r.version = v
  BY DEF Numbers, RowsOf
<1>2. TextOf(r.doc, r.version) = r.content
  BY TextOfRow DEF IInv, TextsOfRows
<1>3. TextOf(r.doc, r.version)' = r.content
  BY TextOfNextRow DEF IInv, TextsOfRows
<1> QED BY <1>1, <1>2, <1>3

\* A function that extends a sequence by one value appends it.
LEMMA Extended ==
  ASSUME NEW S, NEW s \in Seq(S), NEW c \in S, NEW k \in Nat, Len(s) = k,
         NEW f, f = [i \in 1..(k + 1) |-> IF i = k + 1 THEN c ELSE s[i]]
  PROVE  f = Append(s, c)
<1>1. /\ Append(s, c) \in Seq(S) /\ Len(Append(s, c)) = k + 1
      /\ \A i \in 1..k : Append(s, c)[i] = s[i]
      /\ Append(s, c)[k + 1] = c
  BY AppendProperties
<1>2. f \in Seq(S) /\ Len(f) = k + 1
  <2>1. \A i \in 1..(k + 1) : f[i] \in S
    <3>1. \A i \in 1..k : s[i] \in S
      BY ElementOfSeq
    <3> QED BY <3>1
  <2>2. f \in [1..(k + 1) -> S]
    BY <2>1
  <2> QED BY <2>2, IsASeq
<1>3. \A i \in 1..Len(f) : f[i] = Append(s, c)[i]
  BY <1>1, <1>2
<1> QED BY <1>1, <1>2, <1>3, SeqEqual

LEMMA EntriesAreSequences ==
  ASSUME IInv, NEW n \in Name
  PROVE  /\ Entries(n) \in Seq(Content)
         /\ Len(Entries(n)) = Cardinality(RowsOf(n))
         /\ DOMAIN Entries(n) = Numbers(n)
<1> DEFINE k == Cardinality(RowsOf(n))
<1>1. k \in Nat /\ Numbers(n) = 1..k
  BY RowsAreFinite DEF IInv, VersionsAreDense
<1>2. \A v \in Numbers(n) : TextOf(n, v) \in Content
  <2>1. \A r \in rows : TextOf(r.doc, r.version) = r.content /\ r.content \in Content
    BY TextOfRow DEF IInv, TypeOK, TextsOfRows
  <2> QED BY <2>1 DEF Numbers, RowsOf
<1>3. Entries(n) \in [1..k -> Content]
  BY <1>1, <1>2 DEF Entries
<1> QED BY <1>1, <1>3, IsASeq

\* Committing is saving; every other step leaves the log as it is.
LEMMA SaveOrStutter ==
  ASSUME IInv, IInv', [Next]_vars
  PROVE  \/ \A n \in Name : Entries(n)' = Entries(n)
         \/ \E d \in Name, c \in Content : \A n \in Name :
              Entries(n)' = IF n = d THEN Append(Entries(n), c) ELSE Entries(n)
<1>1. CASE UNCHANGED <<documents, rows>>
  <2>1. \A n \in Name : Numbers(n)' = Numbers(n)
    BY <1>1 DEF Numbers, RowsOf
  <2>2. \A n \in Name : \A v \in Numbers(n) : TextOf(n, v)' = TextOf(n, v)
    BY <1>1, TextStays
  <2> QED BY <2>1, <2>2 DEF Entries
<1>2. ASSUME NEW w \in Writer, NEW answer, Commit(w, answer)
      PROVE  \E d \in Name, c \in Content : \A n \in Name :
               Entries(n)' = IF n = d THEN Append(Entries(n), c) ELSE Entries(n)
  <2>1. doc[w] \in Name /\ text[w] \in Content
    BY <1>2 DEF Commit, Go, IInv, TypeOK
  <2>2. PICK d \in Name : d = doc[w]
    BY <2>1
  <2>3. PICK c \in Content : c = text[w]
    BY <2>1
  <2>4. PICK new, k : new = RowOf(w) /\ k = Cardinality(RowsOf(d))
    OBVIOUS
  <2>5. /\ rows' = rows \cup {new} /\ new.doc = d /\ new.content = c
        /\ new.version = number[w]
    BY <1>2, <2>2, <2>3, <2>4 DEF Commit, RowOf
  <2>6. k \in Nat /\ number[w] = k + 1
    BY <1>2, <2>4, <2>2, CommitAddsNext, RowsAreFinite DEF IInv
  <2>7. \A n \in Name : \A v \in Numbers(n) : TextOf(n, v)' = TextOf(n, v)
    BY <2>5, TextStays
  <2>8. \A n \in Name \ {d} : Entries(n)' = Entries(n)
    <3>1. \A n \in Name \ {d} : Numbers(n)' = Numbers(n)
      BY <2>5 DEF Numbers, RowsOf
    <3> QED BY <2>7, <3>1 DEF Entries
  <2>9. Entries(d)' = Append(Entries(d), c)
    <3>1. Numbers(d) = 1..k
      BY <2>4 DEF IInv, VersionsAreDense
    <3>2. Numbers(d)' = 1..(k + 1)
      <4>1. Numbers(d)' = Numbers(d) \cup {k + 1}
        BY <2>5, <2>6 DEF Numbers, RowsOf
      <4> QED BY <4>1, <3>1, <2>6
    <3>3. TextOf(d, k + 1)' = c
      <4>1. new \in rows'
        BY <2>5
      <4>2. TextOf(new.doc, new.version)' = new.content
        BY <4>1, TextOfNextRow DEF IInv, TextsOfRows
      <4> QED BY <4>2, <2>5, <2>6
    <3>4. Entries(d)' = [i \in 1..(k + 1) |-> IF i = k + 1 THEN c ELSE Entries(d)[i]]
      <4>1. \A i \in 1..k : TextOf(d, i)' = Entries(d)[i]
        BY <3>1, <2>7 DEF Entries
      <4>2. \A i \in 1..(k + 1) : i = k + 1 \/ i \in 1..k
        BY <2>6
      <4> QED BY <3>2, <3>3, <4>1, <4>2 DEF Entries
    <3>5. Entries(d) \in Seq(Content) /\ Len(Entries(d)) = k
      BY <2>4, EntriesAreSequences
    <3>6. PICK s, f : s = Entries(d) /\ f = Entries(d)'
      OBVIOUS
    <3>7. s \in Seq(Content) /\ Len(s) = k
      BY <3>5, <3>6
    <3>8. f = [i \in 1..(k + 1) |-> IF i = k + 1 THEN c ELSE s[i]]
      BY <3>4, <3>6
    <3>9. f = Append(s, c)
      BY ONLY <2>6, <3>7, <3>8, Extended
    <3> QED BY <3>6, <3>9
  <2> QED BY <2>8, <2>9
<1> QED BY <1>1, <1>2, StepOfTables

\* Saves implement an append-only log of texts per document.
THEOREM SavesRefineLog == Spec => IsVersionLog
<1> DEFINE log == [n \in Name |-> [v \in Numbers(n) |-> TextOf(n, v)]]
<1>1. Init => Log!LogInit
  BY DEF Init, Log!LogInit, Numbers, RowsOf
<1>2. IInv /\ IInv' /\ [Next]_vars => [Log!LogNext]_log
  <2> SUFFICES ASSUME IInv, IInv', [Next]_vars
               PROVE  [Log!LogNext]_log
    OBVIOUS
  <2>1. log = [n \in Name |-> Entries(n)] /\ log' = [n \in Name |-> Entries(n)']
    BY DEF Entries
  <2>2. CASE \A n \in Name : Entries(n)' = Entries(n)
    BY <2>1, <2>2
  <2>3. ASSUME NEW d \in Name, NEW c \in Content,
               \A n \in Name :
                 Entries(n)' = IF n = d THEN Append(Entries(n), c) ELSE Entries(n)
        PROVE  Log!LogNext
    <3>1. log[d] = Entries(d)
      BY <2>1
    <3>2. log' = [log EXCEPT ![d] = Append(@, c)]
      BY <2>1, <2>3, <3>1
    <3> QED BY <3>2 DEF Log!LogNext, Log!Save
  <2> QED BY <2>2, <2>3, SaveOrStutter
<1> QED BY <1>1, <1>2, VersionsInvariant, PTL DEF Spec, IsVersionLog, Log!LogSpec

-----------------------------------------------------------------------------
(* Waiting for another save's transaction.                                 *)

\* The save w can go on only when the transaction of the save v ends.
WaitsFor(w, v) ==
  \E p \in pending \ Own(w) :
    /\ p.by = v /\ p.doc = doc[w]
    /\ \/ stage[w] = "create" /\ doc[w] \notin documents /\ p.number = 0
       \/ stage[w] = "insert" /\ ~Taken(w) /\ p.number = number[w]

\* A save that is waited for waits for none, so no two wait for each other:
\* the insert of a version is followed by the commit, and a document that is
\* not committed is known to the save that creates it alone (repository.go:165).
WaitsAreNotChained == \A u, v, w \in Writer : ~(WaitsFor(w, v) /\ WaitsFor(v, u))

\* The inserts of an open transaction: a document that is not committed, and
\* the version that is about to be.
HoldInv ==
  \A p \in pending :
    IF p.number = 0
    THEN p.doc \notin documents /\ stage[p.by] \in {"take", "insert", "commit"}
    ELSE stage[p.by] = "commit"

\* One save creates a document, and no other gets past its creation before it
\* is committed.
CreatorInv ==
  /\ \A p, q \in pending : p.number = 0 /\ q.number = 0 /\ p.doc = q.doc => p.by = q.by
  /\ \A w \in Writer :
       stage[w] \in {"take", "insert", "commit"} /\ doc[w] \notin documents =>
         \E p \in pending : p.by = w /\ p.doc = doc[w] /\ p.number = 0

LEMMA HoldsArePreserved ==
  ASSUME IInv, HoldInv, CreatorInv, [Next]_vars PROVE HoldInv' /\ CreatorInv'
<1> USE DEF HoldInv, CreatorInv
<1>1. TypeOK /\ NumberInv
  BY DEF IInv
<1>2. CASE UNCHANGED vars
  BY <1>2 DEF vars, requestVars, numberVars, tableVars
<1>3. ASSUME NEW w \in Writer,
             \/ \E n \in Name, c \in Content : SaveVersion(w, n, c)
             \/ ListPromptVersions(w) \/ PutVersionedPrompt(w) \/ PutFails(w)
      PROVE  HoldInv' /\ CreatorInv'
  <2>1. /\ UNCHANGED tableVars /\ stage[w] \in {"idle", "list", "put"}
        /\ \A v \in Writer : v # w => stage'[v] = stage[v] /\ doc'[v] = doc[v]
        /\ stage'[w] \in {"list", "put", "find", "failed"}
    BY <1>1, <1>3 DEF SaveVersion, ListPromptVersions, PutVersionedPrompt, PutFails, Go, TypeOK,
                      requestVars
  <2>2. \A p \in pending : p.by # w /\ p.by \in Writer
    BY <1>1, <2>1 DEF TypeOK, InTransaction
  <2> QED BY <2>1, <2>2 DEF tableVars
<1>4. ASSUME NEW w \in Writer, FindDocument(w) PROVE HoldInv' /\ CreatorInv'
  <2>1. /\ UNCHANGED tableVars /\ UNCHANGED doc /\ stage[w] = "find"
        /\ \A v \in Writer : v # w => stage'[v] = stage[v]
        /\ stage'[w] = "create" \/ (stage'[w] = "take" /\ doc[w] \in documents)
    BY <1>1, <1>4 DEF FindDocument, Go, TypeOK, requestVars
  <2>2. \A p \in pending : p.by # w /\ p.by \in Writer
    BY <1>1, <2>1 DEF TypeOK
  <2> QED BY <2>1, <2>2 DEF tableVars
<1>5. ASSUME NEW w \in Writer, CreateDocument(w) PROVE HoldInv' /\ CreatorInv'
  <2> DEFINE new == [by |-> w, doc |-> doc[w], number |-> 0]
  <2>1. /\ pending' = pending \cup {new} /\ UNCHANGED <<documents, doc>>
        /\ doc[w] \notin documents /\ stage[w] = "create"
        /\ \A p \in pending : p.by # w => ~(p.doc = doc[w] /\ p.number = 0)
        /\ stage' = [stage EXCEPT ![w] = "take"]
    BY <1>5 DEF CreateDocument, Go, Insert, Waits, Own, requestVars
  <2>2. \A p \in pending : p.by # w /\ p.by \in Writer
    BY <1>1, <2>1 DEF TypeOK
  <2>3. \A v \in Writer : stage'[v] = IF v = w THEN "take" ELSE stage[v]
    BY <1>1, <2>1 DEF TypeOK
  <2>4. new.by = w /\ new.doc = doc[w] /\ new.number = 0 /\ new \in pending'
    BY <2>1
  <2>5. pending' = pending \cup {new}
    BY <2>1
  <2> HIDE DEF new
  <2>6. HoldInv'
    BY <2>1, <2>2, <2>3, <2>4, <2>5
  <2>7. \A p, q \in pending' : p.number = 0 /\ q.number = 0 /\ p.doc = q.doc => p.by = q.by
    BY <2>1, <2>2, <2>4, <2>5
  <2>8. ASSUME NEW v \in Writer, stage'[v] \in {"take", "insert", "commit"}, doc'[v] \notin documents'
        PROVE  \E p \in pending' : p.by = v /\ p.doc = doc'[v] /\ p.number = 0
    BY <2>1, <2>3, <2>4, <2>5, <2>8
  <2> QED BY <2>6, <2>7, <2>8
<1>6. ASSUME NEW w \in Writer, TakeNumber(w) PROVE HoldInv' /\ CreatorInv'
  <2>1. /\ UNCHANGED tableVars /\ UNCHANGED doc /\ stage[w] = "take"
        /\ \A v \in Writer : stage'[v] = IF v = w THEN "insert" ELSE stage[v]
    BY <1>1, <1>6 DEF TakeNumber, Go, TypeOK, requestVars
  <2>2. \A p \in pending : p.by \in Writer
    BY <1>1 DEF TypeOK
  <2> QED BY <2>1, <2>2 DEF tableVars
<1>7. ASSUME NEW w \in Writer, InsertVersion(w) PROVE HoldInv' /\ CreatorInv'
  <2> DEFINE new == [by |-> w, doc |-> doc[w], number |-> number[w]]
  <2>1. /\ pending' = pending \cup {new} /\ UNCHANGED <<documents, doc>> /\ stage[w] = "insert"
        /\ \A v \in Writer : stage'[v] = IF v = w THEN "commit" ELSE stage[v]
    BY <1>1, <1>7 DEF InsertVersion, Go, Insert, TypeOK, requestVars
  <2>2. number[w] # 0
    BY <1>1, <2>1 DEF NumberInv
  <2>3. \A p \in pending : p.by \in Writer
    BY <1>1 DEF TypeOK
  <2> QED BY <2>1, <2>2, <2>3
<1>8. ASSUME NEW w \in Writer, NEW from \in {"list"} \cup InTransaction, Fail(w, from)
      PROVE  HoldInv' /\ CreatorInv'
  <2>1. /\ pending' = {p \in pending : p.by # w} /\ UNCHANGED <<documents, doc>>
        /\ \A v \in Writer : stage'[v] = IF v = w THEN "failed" ELSE stage[v]
    BY <1>1, <1>8 DEF Fail, Rollback, Own, Go, TypeOK, requestVars
  <2>2. \A p \in pending : p.by \in Writer
    BY <1>1 DEF TypeOK
  <2> QED BY <2>1, <2>2
<1>9. ASSUME NEW w \in Writer, NEW answer \in Ended, Commit(w, answer)
      PROVE  HoldInv' /\ CreatorInv'
  <2>1. /\ pending' = {p \in pending : p.by # w} /\ UNCHANGED doc /\ stage[w] = "commit"
        /\ documents' = documents \cup {doc[w]}
        /\ \A v \in Writer : stage'[v] = IF v = w THEN answer ELSE stage[v]
    BY <1>1, <1>9 DEF Commit, Own, Go, TypeOK, requestVars
  <2>2. \A p \in pending : p.by \in Writer
    BY <1>1 DEF TypeOK
  <2>3. \A p \in pending : p.by # w /\ p.number = 0 => p.doc # doc[w]
    BY <2>1
  <2> QED BY <2>1, <2>2, <2>3 DEF Ended
<1>10. ASSUME NEW w \in Writer, DocumentTaken(w) \/ VersionTaken(w) \/ GiveUp(w)
       PROVE  HoldInv' /\ CreatorInv'
  <2>1. \E from \in {"list"} \cup InTransaction : Fail(w, from)
    BY <1>10 DEF DocumentTaken, VersionTaken, GiveUp, InTransaction
  <2> QED BY <1>8, <2>1
<1> QED BY <1>2, <1>3, <1>4, <1>5, <1>6, <1>7, <1>9, <1>10 DEF Next, SaveStep, Ended

\* Saves wait for each other only along chains of one link: there is no
\* deadlock among them, for any number of saves and documents.
THEOREM WaitsAreNotChainedCorrect == Spec => []WaitsAreNotChained
<1>1. Init => HoldInv /\ CreatorInv
  BY DEF Init, HoldInv, CreatorInv
<1>2. IInv /\ HoldInv /\ CreatorInv /\ [Next]_vars => HoldInv' /\ CreatorInv'
  BY HoldsArePreserved
<1>3. IInv /\ HoldInv /\ CreatorInv => WaitsAreNotChained
  <2> SUFFICES ASSUME IInv, HoldInv, CreatorInv,
                      NEW u \in Writer, NEW v \in Writer, NEW w \in Writer,
                      WaitsFor(w, v), WaitsFor(v, u)
               PROVE  FALSE
    BY DEF WaitsAreNotChained
  <2>1. PICK p \in pending \ Own(w) :
          /\ p.by = v /\ p.doc = doc[w]
          /\ \/ stage[w] = "create" /\ doc[w] \notin documents /\ p.number = 0
             \/ stage[w] = "insert" /\ ~Taken(w) /\ p.number = number[w]
    BY DEF WaitsFor
  <2>2. PICK q \in pending \ Own(v) :
          /\ q.by = u /\ q.doc = doc[v]
          /\ \/ stage[v] = "create" /\ doc[v] \notin documents /\ q.number = 0
             \/ stage[v] = "insert" /\ ~Taken(v) /\ q.number = number[v]
    BY DEF WaitsFor
  <2>3. p.number = 0 /\ p.doc \notin documents /\ p.doc = doc[v] /\ stage[v] = "insert"
    BY <2>1, <2>2 DEF HoldInv, IInv, TypeOK
  <2>4. q.number # 0 /\ stage[u] = "commit" /\ q.doc = doc[u] /\ u # v
    BY <2>2, <2>3 DEF HoldInv, IInv, TypeOK, NumberInv, Own
  <2>5. PICK r \in pending : r.by = u /\ r.doc = doc[u] /\ r.number = 0
    BY <2>2, <2>3, <2>4 DEF CreatorInv
  <2> QED BY <2>1, <2>2, <2>3, <2>4, <2>5 DEF CreatorInv
<1> QED BY <1>1, <1>2, <1>3, VersionsInvariant, PTL DEF Spec
==============================================================================
