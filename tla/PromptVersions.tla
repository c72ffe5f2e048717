---------------------------- MODULE PromptVersions ----------------------------
(***************************************************************************)
(* Versions of prompt documents: SaveVersion of internal/prompt/service.go *)
(* over the object store (internal/objectstore/minio/store.go) and the     *)
(* tables prompt_documents and prompt_versions (repository.go and          *)
(* db/migrations/001_init.sql).  A save reads the latest version, stores   *)
(* the text under a key with the next number, and then, in a transaction,  *)
(* takes the number the row really gets.  Saves run concurrently, and each *)
(* of their steps can fail or be the last one of a process that stops.     *)
(*                                                                         *)
(* Postgres isolates transactions at its default, read committed: a query  *)
(* sees what is committed; the insert of a unique key waits for another    *)
(* transaction that has inserted it, and fails if that one committed.      *)
(***************************************************************************)
EXTENDS Naturals, FiniteSets, FiniteSetsExt

CONSTANTS Writer,    \* calls of SaveVersion; also the UUIDs of their rows
          Name,      \* document names
          Content,   \* texts; the SHA-256 of a text is taken as the text
          Sanitize,  \* the folder of a name: several names may share one
          None

ASSUME SaveAssumption == None \notin Name \cup Content

VARIABLES stage,      \* where each save is
          doc, text,  \* its request
          guess,      \* the number its key carries
          number,     \* the number its row gets
          objects,    \* what the bucket holds under each key
          documents,  \* prompt_documents, committed
          rows,       \* prompt_versions, committed
          pending     \* inserts of open transactions; number 0: the document

requestVars == <<doc, text>>
numberVars == <<guess, number>>
tableVars == <<documents, rows, pending>>
vars == <<stage, requestVars, numberVars, objects, tableVars>>

Ended == {"saved", "failed"}
InTransaction == {"find", "create", "take", "insert", "commit"}
Stage == {"idle", "list", "put"} \cup InTransaction \cup Ended

\* Fault variant of Key: the key does not carry the hash of the text.
KeyByNumber(n, v, c) == <<Sanitize[n], v>>

Key(n, v, c) == <<Sanitize[n], v, c>>

RowsOf(n) == {r \in rows : r.doc = n}
Numbers(n) == {r.version : r \in RowsOf(n)}
Latest(n) == Max(Numbers(n) \cup {0})

\* Types; only open transactions have uncommitted inserts, of their document.
TypeOK ==
  /\ stage \in [Writer -> Stage]
  /\ doc \in [Writer -> Name \cup {None}] /\ text \in [Writer -> Content \cup {None}]
  /\ \A w \in Writer : stage[w] # "idle" => doc[w] \in Name /\ text[w] \in Content
  /\ guess \in [Writer -> Nat] /\ number \in [Writer -> Nat]
  /\ documents \subseteq Name
  /\ \A r \in rows :
       r.id \in Writer /\ r.doc \in documents /\ r.content \in Content /\ r.version \in Nat \ {0}
  /\ \A p \in pending :
       /\ p.by \in Writer /\ stage[p.by] \in InTransaction
       /\ p.doc = doc[p.by] /\ p.number \in Nat

Init ==
  /\ stage = [w \in Writer |-> "idle"]
  /\ doc = [w \in Writer |-> None] /\ text = [w \in Writer |-> None]
  /\ guess = [w \in Writer |-> 0] /\ number = [w \in Writer |-> 0]
  /\ objects = {}
  /\ documents = {} /\ rows = {} /\ pending = {}

Go(w, from, to) == stage[w] = from /\ stage' = [stage EXCEPT ![w] = to]

-----------------------------------------------------------------------------
(* SaveVersion up to the object.                                           *)

SaveVersion(w, n, c) ==
  /\ Go(w, "idle", "list")
  /\ doc' = [doc EXCEPT ![w] = n] /\ text' = [text EXCEPT ![w] = c]
  /\ UNCHANGED <<numberVars, objects, tableVars>>

\* Latest first: the next version is one more than the first row's.
ListPromptVersions(w) ==
  /\ Go(w, "list", "put")
  /\ guess' = [guess EXCEPT ![w] = Latest(doc[w]) + 1]
  /\ UNCHANGED <<requestVars, number, objects, tableVars>>

\* PutObject replaces what the key held.
Put(w) ==
  LET k == Key(doc[w], guess[w], text[w]) IN
  objects' = {o \in objects : o.key # k} \cup {[key |-> k, content |-> text[w]]}

PutVersionedPrompt(w) ==
  /\ Go(w, "put", "find")
  /\ Put(w)
  /\ UNCHANGED <<requestVars, numberVars, tableVars>>

\* Fault variant of PutFails: the error is not looked at.
PutErrorIgnored(w) ==
  /\ Go(w, "put", "find")
  /\ UNCHANGED <<objects, requestVars, numberVars, tableVars>>

\* PutObject returned an error: the object may be there or not.
PutFails(w) ==
  /\ Go(w, "put", "failed")
  /\ Put(w) \/ UNCHANGED objects
  /\ UNCHANGED <<requestVars, numberVars, tableVars>>

-----------------------------------------------------------------------------
(* SavePromptVersion, one transaction.                                     *)

Own(w) == {p \in pending : p.by = w}
Insert(w, v) == pending' = pending \cup {[by |-> w, doc |-> doc[w], number |-> v]}
Waits(w, v) == \E p \in pending \ Own(w) : p.doc = doc[w] /\ p.number = v

\* Fault variant of Rollback: the transaction stays open.
RollbackForgotten(w) == UNCHANGED pending

Rollback(w) == pending' = pending \ Own(w)

Fail(w, from) ==
  /\ Go(w, from, "failed")
  /\ Rollback(w)
  /\ UNCHANGED <<requestVars, numberVars, objects, documents, rows>>

\* ensurePromptDocument: the document is looked up, and created if not found.
FindDocument(w) ==
  /\ Go(w, "find", IF doc[w] \in documents THEN "take" ELSE "create")
  /\ UNCHANGED <<requestVars, numberVars, objects, tableVars>>

CreateDocument(w) ==
  /\ Go(w, "create", "take")
  /\ doc[w] \notin documents /\ ~Waits(w, 0)
  /\ Insert(w, 0)
  /\ UNCHANGED <<requestVars, numberVars, objects, documents, rows>>

\* UNIQUE (name): another save created the document meanwhile.
DocumentTaken(w) == doc[w] \in documents /\ Fail(w, "create")

\* SELECT COALESCE(MAX(version), 0) + 1.
TakeNumber(w) ==
  /\ Go(w, "take", "insert")
  /\ number' = [number EXCEPT ![w] = Latest(doc[w]) + 1]
  /\ UNCHANGED <<requestVars, guess, objects, tableVars>>

\* Fault variant of Taken: versions are not unique.
NeverTaken(w) == FALSE

\* UNIQUE (document_id, version).
Taken(w) == number[w] \in Numbers(doc[w])

InsertVersion(w) ==
  /\ Go(w, "insert", "commit")
  /\ ~Taken(w) /\ ~Waits(w, number[w])
  /\ Insert(w, number[w])
  /\ UNCHANGED <<requestVars, numberVars, objects, documents, rows>>

VersionTaken(w) == Taken(w) /\ Fail(w, "insert")

RowOf(w) == [id |-> w, doc |-> doc[w], version |-> number[w],
             key |-> Key(doc[w], guess[w], text[w]), content |-> text[w]]

\* Commit returns nil, or an error although the transaction was committed.
Commit(w, answer) ==
  /\ Go(w, "commit", answer)
  /\ documents' = documents \cup {doc[w]}
  /\ rows' = rows \cup {RowOf(w)}
  /\ pending' = pending \ Own(w)
  /\ UNCHANGED <<requestVars, numberVars, objects>>

\* A statement fails, the caller gives up, or the process stops.
GiveUp(w) == \E from \in {"list"} \cup InTransaction : Fail(w, from)

SaveStep(w) ==
  \/ ListPromptVersions(w) \/ PutVersionedPrompt(w)
  \/ FindDocument(w) \/ CreateDocument(w) \/ DocumentTaken(w)
  \/ TakeNumber(w) \/ InsertVersion(w) \/ VersionTaken(w)
  \/ Commit(w, "saved")

Next == \E w \in Writer :
  \/ \E n \in Name, c \in Content : SaveVersion(w, n, c)
  \/ SaveStep(w)
  \/ PutFails(w) \/ Commit(w, "failed") \/ GiveUp(w)

Spec == Init /\ [][Next]_vars

\* Every statement and call that is not waiting for another transaction
\* returns; nothing is assumed about failures.
FairSpec == Spec /\ \A w \in Writer : WF_vars(SaveStep(w))

-----------------------------------------------------------------------------
(* Properties.                                                             *)

\* However saves overlap and fail, the versions of a document are 1, 2, 3 ...
\* without a gap, and each number was given once (service.go:45 reads a
\* number that others may take; repository.go:173 takes it again).
VersionsAreDense ==
  \A n \in Name : Numbers(n) = 1..Cardinality(RowsOf(n))

\* The key of a committed version leads to its own text: the object was
\* written before the row, and no other save, with the same guess of the
\* number or a name that sanitizes alike, has replaced it (store.go:53).
RowsAreReadable ==
  \A r \in rows :
    \E o \in objects : o.key = r.key /\ o.content = r.content

\* Saves implement an append-only log per document, read as a client would:
\* row by number, text by key (service.go:39-77).
ContentOf(k) == (CHOOSE o \in objects : o.key = k).content
TextOf(n, v) == ContentOf((CHOOSE r \in RowsOf(n) : r.version = v).key)
Log == INSTANCE VersionLog WITH
         log <- [n \in Name |-> [v \in Numbers(n) |-> TextOf(n, v)]]
IsVersionLog == Log!LogSpec

\* A save that has begun ends: it may wait for another one's transaction, but
\* none is left open and no two wait for each other (repository.go:165).
SaveEnds == \A w \in Writer : stage[w] = "list" ~> stage[w] \in Ended
==============================================================================
