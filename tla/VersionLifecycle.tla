-------------------------- MODULE VersionLifecycle --------------------------
(***************************************************************************)
(* The life of a document version: concurrent upload requests that number  *)
(* and insert version rows, and the background parse tasks that publish    *)
(* their node trees (VersionService, VersionRepository and the session     *)
(* discipline of infrastructure/database.py).                              *)
(*                                                                         *)
(* An upload u creates at most one version, whose uuid4 is u itself, so    *)
(* the rows of the versions table are indexed by Uploads.  Everything in a *)
(* transaction that is not committed yet lives in the program counters:    *)
(* no other session can see it and a rollback forgets it.                  *)
(***************************************************************************)
EXTENDS Naturals, FiniteSets

CONSTANTS
  Uploads,      \* upload requests; also the ids of the versions they create
  Docs,         \* document ids
  NoOne,        \* "no upload" (a free lock, a document not created)
  NoDoc,        \* "no document chosen yet"
  RowLocks,     \* TRUE: PostgreSQL, SELECT ... FOR UPDATE locks the row
                \* FALSE: SQLite, FOR UPDATE is ignored, one writer at a time
  MaxNodes,     \* bound: nodes in a parsed tree
  MaxFailures,  \* bound: failed database calls
  MaxCrashes    \* bound: crashes of the server process

ASSUME LifecycleAssumption ==
  /\ NoOne \notin Uploads
  /\ NoDoc \notin Docs
  /\ RowLocks \in BOOLEAN
  /\ MaxNodes \in Nat
  /\ MaxFailures \in Nat
  /\ MaxCrashes \in Nat

VARIABLES
  creator,   \* committed document rows: who created each, or NoOne
  status,    \* committed version rows: their status, or "none"
  docOf,     \* the document an upload is for (versions.document_id)
  number,    \* the number an upload computed (versions.version_number)
  nodes,     \* committed node rows of each version
  upc,       \* where each upload request stands
  tpc,       \* where each parse task stands
  parsed,    \* nodes that parse_pdf returned to the task
  broken,    \* the task's session needs a rollback before further use
  rowLock,   \* holder of each document's row lock (PostgreSQL)
  writer,    \* holder of the database write lock (SQLite)
  failures, crashes   \* what the environment has done so far

request == <<upc, docOf, number>>
task    == <<tpc, parsed, broken>>
tables  == <<creator, status, nodes>>
locks   == <<rowLock, writer>>
faults  == <<failures, crashes>>
vars    == <<request, task, tables, locks, faults>>

Answered == {"done", "rejected", "conflict", "error", "lost"}
UploadPc == {"idle", "created", "checked", "locked", "numbered", "inserted",
             "committed"} \cup Answered
TaskOver == {"none", "done", "lost"}
TaskPc   == {"queued", "parsed", "inserted", "marked", "failing"} \cup TaskOver
Status   == {"none", "processing", "ready", "failed"}

Documents == {d \in Docs : creator[d] # NoOne}
Versions(d) == {v \in Uploads : status[v] # "none" /\ docOf[v] = d}

TypeOK ==
  /\ creator \in [Docs -> Uploads \cup {NoOne}]
  /\ status \in [Uploads -> Status]
  /\ docOf \in [Uploads -> Docs \cup {NoDoc}]
  /\ number \in [Uploads -> Nat]
  /\ nodes \in [Uploads -> 0..MaxNodes]
  /\ upc \in [Uploads -> UploadPc]
  /\ tpc \in [Uploads -> TaskPc]
  /\ parsed \in [Uploads -> 0..MaxNodes]
  /\ broken \in [Uploads -> BOOLEAN]
  /\ rowLock \in [Docs -> Uploads \cup {NoOne}]
  /\ writer \in Uploads \cup {NoOne}
  /\ failures \in 0..MaxFailures
  /\ crashes \in 0..MaxCrashes

Init ==
  /\ creator = [d \in Docs |-> NoOne]
  /\ status = [v \in Uploads |-> "none"]
  /\ docOf = [u \in Uploads |-> NoDoc]
  /\ number = [u \in Uploads |-> 0]
  /\ nodes = [v \in Uploads |-> 0]
  /\ upc = [u \in Uploads |-> "idle"]
  /\ tpc = [v \in Uploads |-> "none"]
  /\ parsed = [v \in Uploads |-> 0]
  /\ broken = [v \in Uploads |-> FALSE]
  /\ rowLock = [d \in Docs |-> NoOne]
  /\ writer = NoOne
  /\ failures = 0
  /\ crashes = 0

-----------------------------------------------------------------------------
(* Locks.                                                                  *)

\* A statement that writes: on SQLite it takes, or already has, the write lock.
TakeWriter(p) ==
  /\ writer \in {NoOne, p}
  /\ writer' = IF RowLocks THEN writer ELSE p

\* A commit, a rollback or a lost connection frees everything p holds.
Release(p) ==
  /\ rowLock' = [d \in Docs |-> IF rowLock[d] = p THEN NoOne ELSE rowLock[d]]
  /\ writer' = IF writer = p THEN NoOne ELSE writer

\* One more failed call, within the bound.
Fault ==
  /\ failures < MaxFailures
  /\ failures' = failures + 1
  /\ UNCHANGED crashes

-----------------------------------------------------------------------------
(* Upload requests: POST /documents and POST /documents/{id}/versions.     *)

\* upload_document: DocumentService.create_document commits the document in a
\* transaction of its own, before the file is read and the version created.
CreateDocument(u, d) ==
  /\ upc[u] = "idle"
  /\ creator[d] = NoOne
  /\ writer = NoOne
  /\ creator' = [creator EXCEPT ![d] = u]
  /\ docOf' = [docOf EXCEPT ![u] = d]
  /\ upc' = [upc EXCEPT ![u] = "created"]
  /\ UNCHANGED <<status, nodes, number, task, locks, faults>>

\* create_version: the existence check, for the document just created or for
\* the one named in the path of POST /documents/{id}/versions.
CheckDocument(u, d) ==
  /\ \/ upc[u] = "idle"
     \/ upc[u] = "created" /\ docOf[u] = d
  /\ docOf' = [docOf EXCEPT ![u] = d]
  /\ upc' = [upc EXCEPT ![u] = IF d \in Documents THEN "checked" ELSE "rejected"]
  /\ UNCHANGED <<number, task, tables, locks, faults>>

\* Seeded fault: the lock statement is dropped from get_next_version_number.
LockDocumentPlain(u) ==
  /\ upc[u] = "checked"
  /\ upc' = [upc EXCEPT ![u] = "locked"]
  /\ UNCHANGED <<docOf, number, task, tables, locks, faults>>

\* get_next_version_number: SELECT id ... FOR UPDATE waits for the row lock on
\* PostgreSQL; SQLite runs it as a plain SELECT.
LockDocument(u) ==
  /\ upc[u] = "checked"
  /\ rowLock[docOf[u]] = NoOne
  /\ rowLock' = IF RowLocks THEN [rowLock EXCEPT ![docOf[u]] = u] ELSE rowLock
  /\ upc' = [upc EXCEPT ![u] = "locked"]
  /\ UNCHANGED <<docOf, number, task, tables, writer, faults>>

\* Seeded fault: numbers drawn from a database sequence, which a rolled back
\* upload does not give back.
IsNextOfSequence(d, n) ==
  n = 1 + Cardinality({u \in Uploads : docOf[u] = d /\ number[u] > 0})

\* n is max(version_number) + 1 over the committed rows of d, or 1.
IsNextNumber(d, n) ==
  /\ n \in {1} \cup {number[v] + 1 : v \in Versions(d)}
  /\ \A v \in Versions(d) : number[v] < n

\* get_next_version_number: the SELECT max(...) + 1.
NextVersionNumber(u) ==
  /\ upc[u] = "locked"
  /\ \E n \in 1..(Cardinality(Uploads) + 1) :
       /\ IsNextNumber(docOf[u], n)
       /\ number' = [number EXCEPT ![u] = n]
  /\ upc' = [upc EXCEPT ![u] = "numbered"]
  /\ UNCHANGED <<docOf, task, tables, locks, faults>>

\* Seeded fault: the table has no UNIQUE(document_id, version_number).
ClashesUnseen(u) == {}

\* Committed rows that UNIQUE(document_id, version_number) sets against u's.
Clashes(u) == {v \in Versions(docOf[u]) : number[v] = number[u]}

\* Uncommitted rows of other sessions with the same key: the INSERT waits.
ClashesInFlight(u) ==
  {v \in Uploads \ {u} : /\ upc[v] = "inserted"
                         /\ docOf[v] = docOf[u]
                         /\ number[v] = number[u]}

\* VersionRepository.create: add, flush, refresh.
InsertVersion(u) ==
  /\ upc[u] = "numbered"
  /\ Clashes(u) = {}
  /\ ClashesInFlight(u) = {}
  /\ TakeWriter(u)
  /\ upc' = [upc EXCEPT ![u] = "inserted"]
  /\ UNCHANGED <<docOf, number, task, tables, rowLock, faults>>

\* The flush raises IntegrityError; nothing catches it, get_session rolls back.
InsertClashes(u) ==
  /\ upc[u] = "numbered"
  /\ Clashes(u) # {}
  /\ ClashesInFlight(u) = {}
  /\ writer = NoOne
  /\ Release(u)
  /\ upc' = [upc EXCEPT ![u] = "conflict"]
  /\ UNCHANGED <<docOf, number, task, tables, faults>>

\* Seeded fault: the row is committed on a session that keeps its locks.
CommitVersionKeepingLocks(u) ==
  /\ upc[u] = "inserted"
  /\ status' = [status EXCEPT ![u] = "processing"]
  /\ upc' = [upc EXCEPT ![u] = "committed"]
  /\ UNCHANGED <<docOf, number, task, creator, nodes, locks, faults>>

\* create_version commits the PROCESSING row.
CommitVersion(u) ==
  /\ upc[u] = "inserted"
  /\ status' = [status EXCEPT ![u] = "processing"]
  /\ upc' = [upc EXCEPT ![u] = "committed"]
  /\ Release(u)
  /\ UNCHANGED <<docOf, number, task, creator, nodes, faults>>

\* background_tasks.add_task; the 202 goes out and the task may start.
QueueTask(u) ==
  /\ upc[u] = "committed"
  /\ upc' = [upc EXCEPT ![u] = "done"]
  /\ tpc' = [tpc EXCEPT ![u] = "queued"]
  /\ UNCHANGED <<docOf, number, parsed, broken, tables, locks, faults>>

\* Any database call of the request raises (connection lost, "database is
\* locked" after the busy timeout): get_session rolls back, the client gets 500.
UploadFails(u) ==
  /\ upc[u] \in {"created", "checked", "locked", "numbered", "inserted"}
  /\ Fault
  /\ Release(u)
  /\ upc' = [upc EXCEPT ![u] = "error"]
  /\ UNCHANGED <<docOf, number, task, tables>>

\* The COMMIT took effect but the server's answer was lost: the row stays, the
\* request fails before add_task.  SQLite has no connection to lose.
CommitVersionUnacknowledged(u) ==
  /\ upc[u] = "inserted"
  /\ RowLocks
  /\ Fault
  /\ Release(u)
  /\ status' = [status EXCEPT ![u] = "processing"]
  /\ upc' = [upc EXCEPT ![u] = "error"]
  /\ UNCHANGED <<docOf, number, task, creator, nodes>>

-----------------------------------------------------------------------------
(* The background task parse_and_persist_version_task(version_id).         *)

\* parse_pdf returned n nodes and their Node entities were built.  With no
\* nodes bulk_create is skipped.
ParseSucceeds(v) ==
  /\ tpc[v] = "queued"
  /\ \E n \in 0..MaxNodes :
       /\ parsed' = [parsed EXCEPT ![v] = n]
       /\ tpc' = [tpc EXCEPT ![v] = IF n = 0 THEN "inserted" ELSE "parsed"]
  /\ UNCHANGED <<broken, request, tables, locks, faults>>

\* Seeded fault: parse_pdf is called outside the try block.
ParseFailsUncaught(v) ==
  /\ tpc[v] = "queued"
  /\ tpc' = [tpc EXCEPT ![v] = "done"]
  /\ UNCHANGED <<parsed, broken, request, tables, locks, faults>>

\* parse_pdf (or Node validation) raises; the session has not been used yet.
ParseFails(v) ==
  /\ tpc[v] = "queued"
  /\ tpc' = [tpc EXCEPT ![v] = "failing"]
  /\ UNCHANGED <<parsed, broken, request, tables, locks, faults>>

\* Seeded fault: bulk_create commits its nodes.
BulkCreateCommitting(v) ==
  /\ tpc[v] = "parsed"
  /\ writer \in {NoOne, v}
  /\ nodes' = [nodes EXCEPT ![v] = parsed[v]]
  /\ tpc' = [tpc EXCEPT ![v] = "inserted"]
  /\ UNCHANGED <<parsed, broken, request, creator, status, locks, faults>>

\* NodeRepository.bulk_create: add_all, flush.
BulkCreate(v) ==
  /\ tpc[v] = "parsed"
  /\ TakeWriter(v)
  /\ tpc' = [tpc EXCEPT ![v] = "inserted"]
  /\ UNCHANGED <<parsed, broken, request, tables, rowLock, faults>>

\* update_status(READY): get, assign, flush, refresh.
MarkReady(v) ==
  /\ tpc[v] = "inserted"
  /\ TakeWriter(v)
  /\ tpc' = [tpc EXCEPT ![v] = "marked"]
  /\ UNCHANGED <<parsed, broken, request, tables, rowLock, faults>>

\* What the task's commit makes visible: the tree and the status together.
Publish(v) ==
  /\ status' = [status EXCEPT ![v] = "ready"]
  /\ nodes' = [nodes EXCEPT ![v] = parsed[v]]
  /\ UNCHANGED creator

CommitReady(v) ==
  /\ tpc[v] = "marked"
  /\ Publish(v)
  /\ tpc' = [tpc EXCEPT ![v] = "done"]
  /\ Release(v)
  /\ UNCHANGED <<parsed, broken, request, faults>>

\* A flush or the commit raises: the transaction is gone and the session
\* refuses further work until it is rolled back, which the handler never does.
\* The SELECT of update_status, outside a flush, leaves the session usable if it fails
\* on its own before the transaction has begun: no connection, or any error on SQLite.
TaskDbFails(v) ==
  /\ tpc[v] \in {"parsed", "inserted", "marked"}
  /\ Fault
  /\ \E b \in BOOLEAN :
       /\ b \/ (tpc[v] = "inserted" /\ parsed[v] = 0)
       /\ broken' = [broken EXCEPT ![v] = b]
  /\ Release(v)
  /\ tpc' = [tpc EXCEPT ![v] = "failing"]
  /\ UNCHANGED <<parsed, request, tables>>

\* The commit took effect but the server's answer was lost.
CommitReadyUnacknowledged(v) ==
  /\ tpc[v] = "marked"
  /\ RowLocks
  /\ Fault
  /\ Publish(v)
  /\ Release(v)
  /\ broken' = [broken EXCEPT ![v] = TRUE]
  /\ tpc' = [tpc EXCEPT ![v] = "failing"]
  /\ UNCHANGED <<parsed, request>>

\* Seeded fault: the handler rolls the session back and writes FAILED without
\* looking at what the lost commit did.
RecordFailureAfterRollback(v) ==
  /\ tpc[v] = "failing"
  /\ writer = NoOne
  /\ status' = [status EXCEPT ![v] = "failed"]
  /\ tpc' = [tpc EXCEPT ![v] = "done"]
  /\ UNCHANGED <<parsed, broken, request, creator, nodes, locks, faults>>

\* The except block on a usable session: update_status(FAILED), commit.
RecordFailure(v) ==
  /\ tpc[v] = "failing"
  /\ ~broken[v]
  /\ writer = NoOne
  /\ status' = [status EXCEPT ![v] = "failed"]
  /\ tpc' = [tpc EXCEPT ![v] = "done"]
  /\ UNCHANGED <<parsed, broken, request, creator, nodes, locks, faults>>

\* The except block on a broken session: the inner except swallows the error.
FailureNotRecorded(v) ==
  /\ tpc[v] = "failing"
  /\ broken[v]
  /\ tpc' = [tpc EXCEPT ![v] = "done"]
  /\ UNCHANGED <<parsed, broken, request, tables, locks, faults>>

\* The FAILED write itself raises: connection, lock, or a message longer than
\* error_message String(2000).
RecordFailureFails(v) ==
  /\ tpc[v] = "failing"
  /\ ~broken[v]
  /\ Fault
  /\ tpc' = [tpc EXCEPT ![v] = "done"]
  /\ UNCHANGED <<parsed, broken, request, tables, locks>>

-----------------------------------------------------------------------------
\* The server process dies and is started again: requests, queued and running
\* tasks are gone, their transactions are rolled back, nothing is resumed.
Crash ==
  /\ crashes < MaxCrashes
  /\ crashes' = crashes + 1
  /\ upc' = [u \in Uploads |-> IF upc[u] \in {"idle"} \cup Answered
                                 THEN upc[u] ELSE "lost"]
  /\ tpc' = [v \in Uploads |-> IF tpc[v] \in TaskOver THEN tpc[v] ELSE "lost"]
  /\ rowLock' = [d \in Docs |-> NoOne]
  /\ writer' = NoOne
  /\ UNCHANGED <<docOf, number, parsed, broken, tables, failures>>

\* Every request answered and every task over: the system may rest.
Quiescent ==
  /\ \A u \in Uploads : upc[u] \in Answered /\ tpc[u] \in TaskOver
  /\ UNCHANGED vars

UploadStep(u) ==
  \/ LockDocument(u) \/ NextVersionNumber(u)
  \/ InsertVersion(u) \/ InsertClashes(u)
  \/ CommitVersion(u) \/ QueueTask(u)
  \/ \E d \in Docs : CheckDocument(u, d)

TaskStep(v) ==
  \/ ParseSucceeds(v) \/ ParseFails(v)
  \/ BulkCreate(v) \/ MarkReady(v) \/ CommitReady(v)
  \/ RecordFailure(v) \/ FailureNotRecorded(v)

FaultStep(u) ==
  \/ UploadFails(u) \/ CommitVersionUnacknowledged(u)
  \/ TaskDbFails(u) \/ CommitReadyUnacknowledged(u) \/ RecordFailureFails(u)

Next ==
  \/ \E u \in Uploads, d \in Docs : CreateDocument(u, d)
  \/ \E u \in Uploads : UploadStep(u) \/ TaskStep(u) \/ FaultStep(u)
  \/ Crash
  \/ Quiescent

Spec == Init /\ [][Next]_vars

(* The event loop keeps running requests and tasks that can run; the        *)
(* environment owes no failure and no crash.  A request that has not been   *)
(* sent (idle) owes nothing either, hence the guard on UploadStep.          *)
Fairness ==
  \A u \in Uploads : /\ WF_vars(upc[u] # "idle" /\ UploadStep(u))
                     /\ WF_vars(TaskStep(u))

FairSpec == Spec /\ Fairness

-----------------------------------------------------------------------------
(* Safety.                                                                 *)

\* Two versions of a document never carry the same number, however uploads
\* interleave (models/version.py: UNIQUE(document_id, version_number)).
UniqueNumbers ==
  \A d \in Docs : \A v, w \in Versions(d) : number[v] = number[w] => v = w

\* The numbers of a document's versions are 1, 2, 3, ... with no gap, even when
\* uploads that already hold a number fail (get_next_version_number).
GaplessNumbers ==
  \A d \in Docs : \A v \in Versions(d) :
    /\ number[v] >= 1
    /\ \A i \in 1..number[v] : \E w \in Versions(d) : number[w] = i

\* Node rows become visible with READY and only then, all of them at once:
\* nobody can read half a tree (parse_and_persist_version_task's one commit).
TreePublishedWithReady ==
  \A v \in Uploads :
    IF status[v] = "ready" THEN nodes[v] = parsed[v] ELSE nodes[v] = 0

\* On PostgreSQL the row lock serialises numbering, so no upload is ever
\* turned away by the UNIQUE constraint (create_version: "atomically using
\* document-level locks").
NoNumberConflict == RowLocks => \A u \in Uploads : upc[u] # "conflict"

\* READY and FAILED are final, and the tree of a READY version never changes
\* again: diffs and selections made against it keep their meaning.
TerminalStatusIsFinal ==
  [][\A v \in Uploads : status[v] \in {"ready", "failed"} =>
       status'[v] = status[v] /\ nodes'[v] = nodes[v]]_vars

(* The service implements VersionCatalog.                                  *)

\* The catalog a client can read: the committed rows of d, by number.
CatalogOf(d) ==
  [n \in {number[v] : v \in Versions(d)} |->
     CHOOSE v \in Versions(d) : number[v] = n]

Catalog == INSTANCE VersionCatalog WITH
  Ids <- Uploads,
  catalog <- [d \in Docs |-> CatalogOf(d)],
  outcome <- status,
  tree <- nodes

\* Whatever uploads, tasks, failures and crashes interleave, clients see
\* append-only numbered versions that are resolved once, a tree arriving with
\* READY (create_version, parse_and_persist_version_task).
ImplementsCatalog == Catalog!Spec

(* The inductive invariant behind the safety properties.                   *)

BeforeCommit == {"idle", "created", "checked", "locked", "numbered", "inserted"}
HasNumber    == {"numbered", "inserted"}

\* Where a request or a task stands agrees with what the tables hold.
TablesFollowProgress ==
  \A v \in Uploads :
    /\ upc[v] \in BeforeCommit => status[v] = "none"
    /\ upc[v] \in BeforeCommit \ {"idle"} => docOf[v] \in Docs
    /\ upc[v] = "committed" => status[v] = "processing"
    /\ upc[v] # "done" => tpc[v] = "none"
    /\ tpc[v] \in {"queued", "parsed", "inserted", "marked"} => status[v] = "processing"
    /\ tpc[v] = "failing" /\ ~broken[v] => status[v] = "processing"

\* A number waiting to be inserted has no gap below it.
PendingNumbersInReach ==
  \A u \in Uploads : upc[u] \in HasNumber =>
    /\ number[u] >= 1
    /\ \A i \in 1..number[u] :
         i = number[u] \/ \E w \in Versions(docOf[u]) : number[w] = i

\* The UNIQUE index keeps inserted rows apart from committed and inserted ones.
InsertedApart ==
  \A u \in Uploads : upc[u] = "inserted" =>
    Clashes(u) = {} /\ ClashesInFlight(u) = {}

\* With row locks, who holds a number holds the lock, and the number is still
\* above all committed ones.
LockCoversNumber ==
  RowLocks => \A u \in Uploads :
    /\ upc[u] \in {"locked"} \cup HasNumber => rowLock[docOf[u]] = u
    /\ upc[u] \in HasNumber => \A v \in Versions(docOf[u]) : number[v] < number[u]

IInv ==
  /\ TypeOK
  /\ TablesFollowProgress
  /\ TreePublishedWithReady
  /\ PendingNumbersInReach /\ InsertedApart /\ UniqueNumbers /\ GaplessNumbers
  /\ LockCoversNumber /\ NoNumberConflict

(* Waiting.                                                                *)

\* Those whose locks or uncommitted rows the next call of u waits for.
BlockedBy(u) ==
  {p \in Uploads :
     \/ upc[u] = "checked" /\ p = rowLock[docOf[u]]
     \/ upc[u] = "numbered" /\ p \in ClashesInFlight(u)
     \/ /\ \/ upc[u] \in {"idle", "numbered"}
           \/ tpc[u] \in {"parsed", "inserted"}
           \/ tpc[u] = "failing" /\ ~broken[u]
        /\ p = writer /\ p # u}

\* Whoever stands in someone's way can go on: no chain of waiting sessions, let
\* alone a circle, forms from row locks, index keys and the write lock, so the
\* databases' deadlock detection never has to abort an upload or a task.
NobodyWaitsForAWaiter ==
  \A u \in Uploads : \A p \in BlockedBy(u) : BlockedBy(p) = {}

\* A lock is held by a session in the middle of the transaction that took it.
LocksAreInUse ==
  /\ \A d \in Docs : rowLock[d] # NoOne =>
       /\ RowLocks
       /\ upc[rowLock[d]] \in {"locked"} \cup HasNumber
       /\ docOf[rowLock[d]] = d
  /\ writer # NoOne =>
       /\ ~RowLocks
       /\ upc[writer] = "inserted" \/ tpc[writer] \in {"inserted", "marked"}

(* Liveness, when no database call fails and the server stays up.          *)

\* Every upload that was sent is answered: row locks and the write lock are
\* always given back.
UploadsAnswered ==
  \A u \in Uploads : upc[u] # "idle" ~> upc[u] \in Answered

\* Every PROCESSING version becomes READY or FAILED.
ProcessingResolves ==
  \A v \in Uploads : status[v] = "processing" ~> status[v] \in {"ready", "failed"}

-----------------------------------------------------------------------------
(* What the repository's texts say and the code does not do.               *)

\* "Handle parsing failures gracefully: flag the version as failed"
\* (services/version.py:97): a task that ended left a resolved version.
FailureIsFlagged == \A v \in Uploads : tpc[v] = "done" => status[v] # "processing"
=============================================================================
