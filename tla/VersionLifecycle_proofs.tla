----------------------- MODULE VersionLifecycle_proofs -----------------------
(***************************************************************************)
(* Theorems of VersionLifecycle, for every number of uploads, documents,   *)
(* failures and crashes, and for both databases.                           *)
(***************************************************************************)
EXTENDS VersionLifecycle, SequenceTheorems, TLAPS

USE LifecycleAssumption

-----------------------------------------------------------------------------
(* Typing.                                                                 *)

LEMMA InitType == Init => TypeOK
BY DEF Init, TypeOK, UploadPc, Answered, TaskPc, TaskOver, Status

\* Upload actions keep the types.
LEMMA UploadType ==
  ASSUME TypeOK, NEW u \in Uploads,
         \/ \E d \in Docs : CreateDocument(u, d)
         \/ UploadStep(u)
         \/ UploadFails(u)
         \/ CommitVersionUnacknowledged(u)
  PROVE  TypeOK'
<1> USE DEF TypeOK, UploadPc, Answered, Status, vars, request, task, tables,
            locks, faults
<1>1. ASSUME NEW d \in Docs, CreateDocument(u, d) PROVE TypeOK'
  BY <1>1 DEF CreateDocument
<1>2. ASSUME NEW d \in Docs, CheckDocument(u, d) PROVE TypeOK'
  BY <1>2 DEF CheckDocument
<1>3. CASE LockDocument(u)
  BY <1>3 DEF LockDocument
<1>4. CASE NextVersionNumber(u)
  BY <1>4 DEF NextVersionNumber
<1>5. CASE InsertVersion(u)
  BY <1>5 DEF InsertVersion, TakeWriter
<1>6. CASE InsertClashes(u)
  BY <1>6 DEF InsertClashes, Release
<1>7. CASE CommitVersion(u)
  BY <1>7 DEF CommitVersion, Release
<1>8. CASE QueueTask(u)
  BY <1>8 DEF QueueTask, TaskPc, TaskOver
<1>9. CASE UploadFails(u)
  BY <1>9 DEF UploadFails, Release, Fault
<1>10. CASE CommitVersionUnacknowledged(u)
  BY <1>10 DEF CommitVersionUnacknowledged, Release, Fault
<1>11. QED
  BY <1>1, <1>2, <1>3, <1>4, <1>5, <1>6, <1>7, <1>8, <1>9, <1>10
  DEF UploadStep

\* Task actions keep the types.
LEMMA TaskType ==
  ASSUME TypeOK, NEW v \in Uploads,
         \/ TaskStep(v)
         \/ TaskDbFails(v)
         \/ CommitReadyUnacknowledged(v)
         \/ RecordFailureFails(v)
  PROVE  TypeOK'
<1> USE DEF TypeOK, TaskPc, TaskOver, Status, vars, request, task, tables,
            locks, faults
<1>1. CASE ParseSucceeds(v)
  BY <1>1 DEF ParseSucceeds
<1>2. CASE ParseFails(v)
  BY <1>2 DEF ParseFails
<1>3. CASE BulkCreate(v)
  BY <1>3 DEF BulkCreate, TakeWriter
<1>4. CASE MarkReady(v)
  BY <1>4 DEF MarkReady, TakeWriter
<1>5. CASE CommitReady(v)
  BY <1>5 DEF CommitReady, Publish, Release
<1>6. CASE RecordFailure(v)
  BY <1>6 DEF RecordFailure
<1>7. CASE FailureNotRecorded(v)
  BY <1>7 DEF FailureNotRecorded
<1>8. CASE TaskDbFails(v)
  BY <1>8 DEF TaskDbFails, Release, Fault
<1>9. CASE CommitReadyUnacknowledged(v)
  BY <1>9 DEF CommitReadyUnacknowledged, Publish, Release, Fault
<1>10. CASE RecordFailureFails(v)
  BY <1>10 DEF RecordFailureFails, Fault
<1>11. QED
  BY <1>1, <1>2, <1>3, <1>4, <1>5, <1>6, <1>7, <1>8, <1>9, <1>10
  DEF TaskStep

LEMMA CrashType == TypeOK /\ Crash => TypeOK'
BY DEF TypeOK, Crash, UploadPc, Answered, TaskPc, TaskOver, Status, tables

LEMMA NextType == TypeOK /\ [Next]_vars => TypeOK'
<1> SUFFICES ASSUME TypeOK, [Next]_vars PROVE TypeOK'
  OBVIOUS
<1>1. ASSUME NEW u \in Uploads,
             \/ \E d \in Docs : CreateDocument(u, d)
             \/ UploadStep(u) \/ TaskStep(u) \/ FaultStep(u)
      PROVE  TypeOK'
  BY <1>1, UploadType, TaskType DEF FaultStep
<1>2. CASE Crash
  BY <1>2, CrashType
<1>3. CASE Quiescent \/ UNCHANGED vars
  BY <1>3 DEF Quiescent, vars, request, task, tables, locks, faults, TypeOK
<1>4. QED
  BY <1>1, <1>2, <1>3 DEF Next

\* Every variable keeps its type.
THEOREM TypeCorrect == Spec => []TypeOK
<1>1. Init => TypeOK
  BY InitType
<1>2. TypeOK /\ [Next]_vars => TypeOK'
  BY NextType
<1>3. QED
  BY <1>1, <1>2, PTL DEF Spec

-----------------------------------------------------------------------------
(* Progress and tables: what a program counter says about committed rows.  *)

LEMMA UploadProgress ==
  ASSUME IInv, NEW u \in Uploads,
         \/ \E d \in Docs : CreateDocument(u, d)
         \/ UploadStep(u)
         \/ UploadFails(u)
         \/ CommitVersionUnacknowledged(u)
  PROVE  TablesFollowProgress' /\ TreePublishedWithReady'
<1> USE DEF IInv, TypeOK, TablesFollowProgress, TreePublishedWithReady,
            BeforeCommit, request, task, tables, locks, faults
<1>1. ASSUME NEW d \in Docs, CreateDocument(u, d)
      PROVE  TablesFollowProgress' /\ TreePublishedWithReady'
  BY <1>1 DEF CreateDocument
<1>2. ASSUME NEW d \in Docs, CheckDocument(u, d)
      PROVE  TablesFollowProgress' /\ TreePublishedWithReady'
  BY <1>2 DEF CheckDocument
<1>3. CASE LockDocument(u)
  BY <1>3 DEF LockDocument
<1>4. CASE NextVersionNumber(u)
  BY <1>4 DEF NextVersionNumber
<1>5. CASE InsertVersion(u)
  BY <1>5 DEF InsertVersion
<1>6. CASE InsertClashes(u)
  BY <1>6 DEF InsertClashes
<1>7. CASE CommitVersion(u)
  BY <1>7 DEF CommitVersion
<1>8. CASE QueueTask(u)
  BY <1>8 DEF QueueTask
<1>9. CASE UploadFails(u)
  BY <1>9 DEF UploadFails, Fault
<1>10. CASE CommitVersionUnacknowledged(u)
  BY <1>10 DEF CommitVersionUnacknowledged, Fault
<1>11. QED
  BY <1>1, <1>2, <1>3, <1>4, <1>5, <1>6, <1>7, <1>8, <1>9, <1>10
  DEF UploadStep

LEMMA TaskProgress ==
  ASSUME IInv, NEW v \in Uploads,
         \/ TaskStep(v)
         \/ TaskDbFails(v)
         \/ CommitReadyUnacknowledged(v)
         \/ RecordFailureFails(v)
  PROVE  TablesFollowProgress' /\ TreePublishedWithReady'
<1> USE DEF IInv, TypeOK, TablesFollowProgress, TreePublishedWithReady,
            BeforeCommit, request, task, tables, locks, faults
<1>1. CASE ParseSucceeds(v)
  BY <1>1 DEF ParseSucceeds
<1>2. CASE ParseFails(v)
  BY <1>2 DEF ParseFails
<1>3. CASE BulkCreate(v)
  BY <1>3 DEF BulkCreate
<1>4. CASE MarkReady(v)
  BY <1>4 DEF MarkReady
<1>5. CASE CommitReady(v)
  BY <1>5 DEF CommitReady, Publish
<1>6. CASE RecordFailure(v)
  BY <1>6 DEF RecordFailure
<1>7. CASE FailureNotRecorded(v)
  BY <1>7 DEF FailureNotRecorded
<1>8. CASE TaskDbFails(v)
  BY <1>8 DEF TaskDbFails, Fault
<1>9. CASE CommitReadyUnacknowledged(v)
  BY <1>9 DEF CommitReadyUnacknowledged, Publish, Fault
<1>10. CASE RecordFailureFails(v)
  BY <1>10 DEF RecordFailureFails, Fault
<1>11. QED
  BY <1>1, <1>2, <1>3, <1>4, <1>5, <1>6, <1>7, <1>8, <1>9, <1>10
  DEF TaskStep

LEMMA CrashProgress ==
  IInv /\ Crash => TablesFollowProgress' /\ TreePublishedWithReady'
BY DEF IInv, TypeOK, TablesFollowProgress, TreePublishedWithReady,
       BeforeCommit, Crash, tables, Answered, TaskOver

-----------------------------------------------------------------------------
(* Numbering.  A step that adds no row and changes no number or document   *)
(* of a row, and moves uploads only out of HasNumber, keeps it.            *)

Numbering == /\ PendingNumbersInReach /\ InsertedApart
             /\ UniqueNumbers /\ GaplessNumbers
             /\ LockCoversNumber /\ NoNumberConflict

\* No row appears or goes, nobody starts to hold a number, and whoever holds a
\* number or a lock keeps it.
RowsUntouched ==
  /\ UNCHANGED number
  /\ \A v \in Uploads :
       /\ (status'[v] = "none") <=> (status[v] = "none")
       /\ status[v] # "none" \/ upc'[v] \in {"locked"} \cup HasNumber
            => docOf'[v] = docOf[v]
       /\ upc'[v] \in HasNumber => upc'[v] = upc[v]
       /\ upc'[v] = "locked" => upc[v] = "locked"
       /\ upc'[v] = "conflict" => upc[v] = "conflict"
       /\ \A d \in Docs : rowLock[d] = v /\ upc'[v] \in {"locked"} \cup HasNumber
                            => rowLock'[d] = v

LEMMA RowsUntouchedKeepsNumbering ==
  ASSUME IInv, RowsUntouched PROVE Numbering'
<1>1. \A d \in Docs : Versions(d)' = Versions(d)
  BY DEF RowsUntouched, Versions
<1>2. \A u \in Uploads : upc'[u] \in {"locked"} \cup HasNumber => 
        /\ docOf[u] \in Docs
        /\ docOf'[u] = docOf[u]
  BY DEF RowsUntouched, IInv, TablesFollowProgress, BeforeCommit, HasNumber
<1>3. PendingNumbersInReach'
  BY <1>1, <1>2 DEF RowsUntouched, IInv, PendingNumbersInReach
<1>4. InsertedApart'
  BY <1>1, <1>2 DEF RowsUntouched, IInv, InsertedApart, Clashes, ClashesInFlight, HasNumber
<1>5. UniqueNumbers'
  BY <1>1 DEF RowsUntouched, IInv, UniqueNumbers
<1>6. GaplessNumbers'
  BY <1>1 DEF RowsUntouched, IInv, GaplessNumbers
<1>7. LockCoversNumber' /\ NoNumberConflict'
  BY <1>1, <1>2 DEF RowsUntouched, IInv, LockCoversNumber, NoNumberConflict, HasNumber
<1>8. QED
  BY <1>3, <1>4, <1>5, <1>6, <1>7 DEF Numbering

\* The steps that leave the rows and their numbers alone.
LEMMA QuietSteps ==
  ASSUME IInv, NEW u \in Uploads,
         \/ \E d \in Docs : CreateDocument(u, d) \/ CheckDocument(u, d)
         \/ QueueTask(u) \/ UploadFails(u) \/ TaskStep(u)
         \/ TaskDbFails(u) \/ CommitReadyUnacknowledged(u) \/ RecordFailureFails(u)
  PROVE  Numbering'
<1> USE DEF IInv, TypeOK, TablesFollowProgress, RowsUntouched, HasNumber,
            BeforeCommit, request, task, tables, locks, faults
<1>1. ASSUME NEW d \in Docs, CreateDocument(u, d) PROVE RowsUntouched
  BY <1>1 DEF CreateDocument
<1>2. ASSUME NEW d \in Docs, CheckDocument(u, d) PROVE RowsUntouched
  BY <1>2 DEF CheckDocument
<1>3. CASE QueueTask(u)
  <2>1. RowsUntouched
    BY <1>3 DEF QueueTask
  <2>2. QED
    BY <2>1, RowsUntouchedKeepsNumbering
<1>4. CASE UploadFails(u)
  <2>1. RowsUntouched
    BY <1>4 DEF UploadFails, Fault, Release
  <2>2. QED
    BY <2>1, RowsUntouchedKeepsNumbering
<1>5. CASE ParseSucceeds(u) \/ ParseFails(u) \/ BulkCreate(u) \/ MarkReady(u)
  <2>1. RowsUntouched
    BY <1>5 DEF ParseSucceeds, ParseFails, BulkCreate, MarkReady
  <2>2. QED
    BY <2>1, RowsUntouchedKeepsNumbering
<1>6. CASE CommitReady(u) \/ CommitReadyUnacknowledged(u)
  <2>1. upc[u] = "done"
    BY <1>6 DEF CommitReady, CommitReadyUnacknowledged
  <2>2. status[u] = "processing" /\ status' = [status EXCEPT ![u] = "ready"]
    BY <1>6 DEF CommitReady, CommitReadyUnacknowledged, Publish
  <2>3. RowsUntouched
    BY <1>6, <2>1, <2>2
    DEF CommitReady, CommitReadyUnacknowledged, Release, Fault
  <2>4. QED
    BY <2>3, RowsUntouchedKeepsNumbering
<1>7. CASE RecordFailure(u) \/ FailureNotRecorded(u) \/ RecordFailureFails(u)
  <2>1. RowsUntouched
    BY <1>7 DEF RecordFailure, FailureNotRecorded, RecordFailureFails, Fault
  <2>2. QED
    BY <2>1, RowsUntouchedKeepsNumbering
<1>8. CASE TaskDbFails(u)
  <2>1. upc[u] = "done"
    BY <1>8 DEF TaskDbFails
  <2>2. RowsUntouched
    BY <1>8, <2>1 DEF TaskDbFails, Release, Fault
  <2>3. QED
    BY <2>2, RowsUntouchedKeepsNumbering
<1>9. QED
  BY <1>1, <1>2, <1>3, <1>4, <1>5, <1>6, <1>7, <1>8,
     RowsUntouchedKeepsNumbering DEF TaskStep

\* A crash frees the locks, and nobody is left to hold a number.
LEMMA CrashNumbering == IInv /\ Crash => Numbering'
<1> SUFFICES ASSUME IInv, Crash PROVE Numbering'
  OBVIOUS
<1>1. RowsUntouched
  BY DEF IInv, TypeOK, RowsUntouched, HasNumber, Crash, tables, Answered
<1>2. QED
  BY <1>1, RowsUntouchedKeepsNumbering

\* Taking the lock: nobody else is under way for the document.
LEMMA LockDocumentNumbering ==
  ASSUME IInv, NEW u \in Uploads, LockDocument(u) PROVE Numbering'
<1> USE DEF LockDocument, IInv, TypeOK, HasNumber, task, tables, faults
<1>1. Versions(docOf[u])' = Versions(docOf[u]) /\ \A d : Versions(d)' = Versions(d)
  BY DEF Versions
<1>2. PendingNumbersInReach' /\ UniqueNumbers' /\ GaplessNumbers'
  BY <1>1 DEF PendingNumbersInReach, UniqueNumbers, GaplessNumbers
<1>3. InsertedApart'
  BY <1>1 DEF InsertedApart, Clashes, ClashesInFlight
<1>4. docOf[u] \in Docs
  BY DEF TablesFollowProgress, BeforeCommit
<1>5. LockCoversNumber' /\ NoNumberConflict'
  <2>1. ASSUME RowLocks, NEW v \in Uploads, upc'[v] \in {"locked"} \cup HasNumber
        PROVE  rowLock'[docOf[v]] = v
    <3>1. CASE v = u
      BY <1>4, <2>1, <3>1
    <3>2. CASE v # u
      <4>1. upc[v] \in {"locked"} \cup HasNumber
        BY <2>1, <3>2
      <4>2. rowLock[docOf[v]] = v
        BY <2>1, <4>1 DEF LockCoversNumber
      <4>3. docOf[v] # docOf[u]
        BY <4>2
      <4>4. QED
        BY <2>1, <4>2, <4>3
    <3>3. QED
      BY <3>1, <3>2
  <2>2. QED
    BY <1>1, <2>1 DEF LockCoversNumber, NoNumberConflict
<1>6. QED
  BY <1>2, <1>3, <1>5 DEF Numbering

\* Reading max + 1: the number is in reach of the committed ones, and above
\* all of them.
LEMMA NextVersionNumberNumbering ==
  ASSUME IInv, NEW u \in Uploads, NextVersionNumber(u) PROVE Numbering'
<1> USE DEF NextVersionNumber, IInv, TypeOK, HasNumber, task, tables, locks, faults
<1>1. PICK n \in 1..(Cardinality(Uploads) + 1) :
        IsNextNumber(docOf[u], n) /\ number' = [number EXCEPT ![u] = n]
  OBVIOUS
<1>2. n \in Nat /\ n >= 1
  BY <1>1
<1>3. docOf[u] \in Docs /\ status[u] = "none"
  BY DEF TablesFollowProgress, BeforeCommit
<1>4. \A d : Versions(d)' = Versions(d) /\ u \notin Versions(d)
  BY <1>3 DEF Versions
<1>5. \A d : \A v \in Versions(d) : v \in Uploads /\ number'[v] = number[v]
  BY <1>1, <1>4 DEF Versions
<1>6. UniqueNumbers' /\ GaplessNumbers'
  BY <1>4, <1>5 DEF UniqueNumbers, GaplessNumbers
<1>7. \A i \in 1..n : i = n \/ \E w \in Versions(docOf[u]) : number[w] = i
  <2>1. CASE n = 1
    BY <2>1
  <2>2. ASSUME NEW v \in Versions(docOf[u]), n = number[v] + 1
        PROVE  \A i \in 1..n : i = n \/ \E w \in Versions(docOf[u]) : number[w] = i
    <3>1. \A i \in 1..number[v] : \E w \in Versions(docOf[u]) : number[w] = i
      BY <1>3, <2>2 DEF GaplessNumbers
    <3>2. number[v] \in Nat
      BY DEF Versions
    <3>3. QED
      BY <2>2, <3>1, <3>2
  <2>3. QED
    BY <1>1, <2>1, <2>2 DEF IsNextNumber
<1>8. PendingNumbersInReach'
  <2>1. ASSUME NEW w \in Uploads, upc'[w] \in HasNumber
        PROVE  /\ number'[w] >= 1
               /\ \A i \in 1..number'[w] :
                    i = number'[w] \/ \E x \in Versions(docOf[w]) : number[x] = i
    <3>1. CASE w = u
      BY <1>1, <1>2, <1>7, <3>1
    <3>2. CASE w # u
      BY <1>1, <2>1, <3>2 DEF PendingNumbersInReach
    <3>3. QED
      BY <3>1, <3>2
  <2>2. QED
    BY <1>4, <1>5, <2>1 DEF PendingNumbersInReach
<1>9. InsertedApart'
  BY <1>1, <1>4, <1>5 DEF InsertedApart, Clashes, ClashesInFlight
<1>10. LockCoversNumber' /\ NoNumberConflict'
  BY <1>1, <1>4, <1>5 DEF LockCoversNumber, NoNumberConflict, IsNextNumber
<1>11. QED
  BY <1>6, <1>8, <1>9, <1>10 DEF Numbering

\* The INSERT: the UNIQUE index lets only a fresh number through.
LEMMA InsertVersionNumbering ==
  ASSUME IInv, NEW u \in Uploads, InsertVersion(u) PROVE Numbering'
<1> USE DEF InsertVersion, IInv, TypeOK, HasNumber, task, tables, faults
<1>1. \A d : Versions(d)' = Versions(d)
  BY DEF Versions
<1>2. UniqueNumbers' /\ GaplessNumbers' /\ PendingNumbersInReach'
  BY <1>1 DEF UniqueNumbers, GaplessNumbers, PendingNumbersInReach
<1>3. InsertedApart'
  BY <1>1 DEF InsertedApart, Clashes, ClashesInFlight
<1>4. LockCoversNumber' /\ NoNumberConflict'
  BY <1>1 DEF LockCoversNumber, NoNumberConflict
<1>5. QED
  BY <1>2, <1>3, <1>4 DEF Numbering

\* A clash cannot happen under row locks, and changes no row otherwise.
LEMMA InsertClashesNumbering ==
  ASSUME IInv, NEW u \in Uploads, InsertClashes(u) PROVE Numbering'
<1> USE DEF InsertClashes, IInv, TypeOK, HasNumber, task, tables, faults
<1>1. ~RowLocks
  <2> SUFFICES ASSUME RowLocks PROVE FALSE
    OBVIOUS
  <2>1. PICK v \in Versions(docOf[u]) : number[v] = number[u]
    BY DEF Clashes
  <2>2. number[v] < number[u]
    BY <2>1 DEF LockCoversNumber
  <2>3. number[u] \in Nat /\ number[v] \in Nat
    BY <2>1 DEF Versions
  <2>4. QED
    BY <2>1, <2>2, <2>3
<1>2. \A d : Versions(d)' = Versions(d)
  BY DEF Versions
<1>3. UniqueNumbers' /\ GaplessNumbers' /\ PendingNumbersInReach'
  BY <1>2 DEF UniqueNumbers, GaplessNumbers, PendingNumbersInReach
<1>4. InsertedApart'
  BY <1>2 DEF InsertedApart, Clashes, ClashesInFlight
<1>5. QED
  BY <1>1, <1>3, <1>4 DEF Numbering, LockCoversNumber, NoNumberConflict

\* A row appears: it extends the gapless numbers of its document by one.
LEMMA CommitNumbering ==
  ASSUME IInv, NEW u \in Uploads,
         CommitVersion(u) \/ CommitVersionUnacknowledged(u)
  PROVE  Numbering'
<1> USE DEF IInv, TypeOK, HasNumber
<1>1. /\ upc[u] = "inserted"
      /\ status' = [status EXCEPT ![u] = "processing"]
      /\ \E x \in {"committed", "error"} : upc' = [upc EXCEPT ![u] = x]
      /\ Release(u)
      /\ UNCHANGED <<docOf, number>>
  BY DEF CommitVersion, CommitVersionUnacknowledged
<1>2. docOf[u] \in Docs /\ status[u] = "none" /\ number[u] \in Nat
  BY <1>1 DEF TablesFollowProgress, BeforeCommit
<1>3. \A d : d = docOf[u] => Versions(d)' = Versions(d) \cup {u}
  BY <1>1, <1>2 DEF Versions
<1>4. \A d : d # docOf[u] => Versions(d)' = Versions(d)
  BY <1>1, <1>2 DEF Versions
<1>5. Clashes(u) = {} /\ ClashesInFlight(u) = {}
  BY <1>1 DEF InsertedApart
<1>6. \A v \in Versions(docOf[u]) : number[v] # number[u]
  BY <1>5 DEF Clashes
<1>7. UniqueNumbers'
  <2>1. ASSUME NEW d \in Docs, NEW v \in Versions(d)', NEW w \in Versions(d)',
               number[v] = number[w]
        PROVE  v = w
    <3>1. CASE d = docOf[u]
      BY <1>3, <1>6, <2>1, <3>1 DEF UniqueNumbers
    <3>2. CASE d # docOf[u]
      BY <1>4, <2>1, <3>2 DEF UniqueNumbers
    <3>3. QED
      BY <3>1, <3>2
  <2>2. QED
    BY <1>1, <2>1 DEF UniqueNumbers
<1>8. \A d : Versions(d) \subseteq Versions(d)'
  BY <1>3, <1>4
<1>9. GaplessNumbers'
  <2>1. ASSUME NEW d \in Docs, NEW v \in Versions(d)'
        PROVE  /\ number[v] >= 1
               /\ \A i \in 1..number[v] : \E w \in Versions(d)' : number[w] = i
    <3>1. CASE v = u
      <4>1. d = docOf[u]
        BY <1>1, <2>1, <3>1 DEF Versions
      <4>2. QED
        BY <1>1, <1>3, <3>1, <4>1 DEF PendingNumbersInReach
    <3>2. CASE v # u
      <4>1. v \in Versions(d)
        BY <1>3, <1>4, <2>1, <3>2
      <4>2. QED
        BY <1>8, <4>1 DEF GaplessNumbers
    <3>3. QED
      BY <3>1, <3>2
  <2>2. QED
    BY <1>1, <2>1 DEF GaplessNumbers
<1>10. PendingNumbersInReach'
  BY <1>1, <1>8 DEF PendingNumbersInReach
<1>11. InsertedApart'
  <2>1. ASSUME NEW v \in Uploads, upc'[v] = "inserted"
        PROVE  Clashes(v)' = {} /\ ClashesInFlight(v)' = {}
    <3>1. v # u /\ upc[v] = "inserted"
      BY <1>1, <2>1
    <3>2. Clashes(v) = {} /\ ClashesInFlight(v) = {}
      BY <3>1 DEF InsertedApart
    <3>3. ~(docOf[v] = docOf[u] /\ number[v] = number[u])
      BY <1>1, <1>5, <3>1 DEF ClashesInFlight
    <3>4. Clashes(v)' = {}
      BY <1>1, <1>3, <1>4, <3>2, <3>3 DEF Clashes
    <3>5. ClashesInFlight(v)' = {}
      BY <1>1, <3>2 DEF ClashesInFlight
    <3>6. QED
      BY <3>4, <3>5
  <2>2. QED
    BY <2>1 DEF InsertedApart
<1>12. LockCoversNumber' /\ NoNumberConflict'
  <2>1. ASSUME RowLocks, NEW v \in Uploads, upc'[v] \in {"locked"} \cup HasNumber
        PROVE  /\ rowLock'[docOf[v]] = v
               /\ docOf[v] # docOf[u]
    <3>1. v # u /\ upc[v] = upc'[v]
      BY <1>1, <2>1
    <3>2. rowLock[docOf[v]] = v /\ rowLock[docOf[u]] = u
      BY <1>1, <2>1, <3>1 DEF LockCoversNumber
    <3>3. docOf[v] \in Docs
      BY <2>1, <3>1 DEF TablesFollowProgress, BeforeCommit
    <3>4. QED
      BY <1>1, <3>1, <3>2, <3>3 DEF Release
  <2>2. QED
    BY <1>1, <1>4, <2>1 DEF LockCoversNumber, NoNumberConflict
<1>13. QED
  BY <1>7, <1>9, <1>10, <1>11, <1>12 DEF Numbering

-----------------------------------------------------------------------------
(* The invariant.                                                          *)

LEMMA InitIInv == Init => IInv
<1> SUFFICES ASSUME Init PROVE IInv
  OBVIOUS
<1>1. TypeOK
  BY InitType
<1>2. TablesFollowProgress /\ TreePublishedWithReady
  BY DEF Init, TablesFollowProgress, BeforeCommit, TreePublishedWithReady
<1>3. \A d : Versions(d) = {}
  BY DEF Init, Versions
<1>4. UniqueNumbers /\ GaplessNumbers
  BY <1>3 DEF UniqueNumbers, GaplessNumbers
<1>5. /\ PendingNumbersInReach /\ InsertedApart
      /\ LockCoversNumber /\ NoNumberConflict
  BY DEF Init, PendingNumbersInReach, InsertedApart, LockCoversNumber,
         NoNumberConflict, HasNumber
<1>6. QED
  BY <1>1, <1>2, <1>4, <1>5 DEF IInv

LEMMA NextIInv == IInv /\ [Next]_vars => IInv'
<1> SUFFICES ASSUME IInv, [Next]_vars PROVE IInv'
  OBVIOUS
<1>1. TypeOK'
  BY NextType DEF IInv
<1>2. ASSUME NEW u \in Uploads,
             \/ \E d \in Docs : CreateDocument(u, d)
             \/ UploadStep(u) \/ TaskStep(u) \/ FaultStep(u)
      PROVE  TablesFollowProgress' /\ TreePublishedWithReady' /\ Numbering'
  <2>1. TablesFollowProgress' /\ TreePublishedWithReady'
    BY <1>2, UploadProgress, TaskProgress DEF FaultStep
  <2>2. Numbering'
    BY <1>2, QuietSteps, LockDocumentNumbering, NextVersionNumberNumbering,
       InsertVersionNumbering, InsertClashesNumbering, CommitNumbering
    DEF UploadStep, FaultStep
  <2>3. QED
    BY <2>1, <2>2
<1>3. CASE Crash
  BY <1>1, <1>3, CrashProgress, CrashNumbering DEF IInv, Numbering
<1>4. CASE Quiescent \/ UNCHANGED vars
  <2>1. UNCHANGED vars
    BY <1>4 DEF Quiescent
  <2>2. UNCHANGED <<number, status, docOf, upc, rowLock>>
    BY <2>1 DEF vars, request, task, tables, locks
  <2>3. Numbering'
    BY <2>2, RowsUntouchedKeepsNumbering DEF RowsUntouched
  <2>4. TablesFollowProgress' /\ TreePublishedWithReady'
    BY <2>1 DEF IInv, TablesFollowProgress, TreePublishedWithReady, vars,
                request, task, tables
  <2>5. QED
    BY <1>1, <2>3, <2>4 DEF IInv, Numbering
<1>5. QED
  BY <1>1, <1>2, <1>3, <1>4 DEF Next, IInv, Numbering

\* The inductive invariant holds in every reachable state.
THEOREM Invariance == Spec => []IInv
<1>1. Init => IInv
  BY InitIInv
<1>2. IInv /\ [Next]_vars => IInv'
  BY NextIInv
<1>3. QED
  BY <1>1, <1>2, PTL DEF Spec

\* Version numbers of a document are unique and gapless on both databases.
THEOREM NumbersCorrect == Spec => [](UniqueNumbers /\ GaplessNumbers)
<1>1. IInv => UniqueNumbers /\ GaplessNumbers
  BY DEF IInv
<1>2. QED
  BY <1>1, Invariance, PTL

\* In particular, no two versions of a document share a number.
THEOREM NumbersUnique == Spec => []UniqueNumbers
BY NumbersCorrect, PTL

\* With row locks no upload meets the UNIQUE constraint.
THEOREM RowLocksPreventConflicts == Spec => []NoNumberConflict
<1>1. IInv => NoNumberConflict
  BY DEF IInv
<1>2. QED
  BY <1>1, Invariance, PTL

\* Node rows are visible exactly for READY versions, and all of them.
THEOREM TreesArePublishedWhole == Spec => []TreePublishedWithReady
<1>1. IInv => TreePublishedWithReady
  BY DEF IInv
<1>2. QED
  BY <1>1, Invariance, PTL

-----------------------------------------------------------------------------
(* Who waits for whom.                                                     *)

\* Upload actions take and give back locks with the transaction.
LEMMA UploadLocks ==
  ASSUME IInv, LocksAreInUse, NEW u \in Uploads,
         \/ \E d \in Docs : CreateDocument(u, d)
         \/ UploadStep(u)
         \/ UploadFails(u)
         \/ CommitVersionUnacknowledged(u)
  PROVE  LocksAreInUse'
<1> USE DEF LocksAreInUse, HasNumber, IInv, TypeOK, vars, request, task, tables,
            locks, faults
<1>1. ASSUME NEW d \in Docs, CreateDocument(u, d) PROVE LocksAreInUse'
  BY <1>1 DEF CreateDocument
<1>2. ASSUME NEW d \in Docs, CheckDocument(u, d) PROVE LocksAreInUse'
  BY <1>2 DEF CheckDocument
<1>3. CASE LockDocument(u)
  BY <1>3 DEF LockDocument
<1>4. CASE NextVersionNumber(u)
  BY <1>4 DEF NextVersionNumber
<1>5. CASE InsertVersion(u)
  BY <1>5 DEF InsertVersion, TakeWriter
<1>6. CASE InsertClashes(u)
  BY <1>6 DEF InsertClashes, Release
<1>7. CASE CommitVersion(u)
  BY <1>7 DEF CommitVersion, Release
<1>8. CASE QueueTask(u)
  BY <1>8 DEF QueueTask, TablesFollowProgress
<1>9. CASE UploadFails(u)
  BY <1>9 DEF UploadFails, Release, Fault
<1>10. CASE CommitVersionUnacknowledged(u)
  BY <1>10 DEF CommitVersionUnacknowledged, Release, Fault
<1>11. QED
  BY <1>1, <1>2, <1>3, <1>4, <1>5, <1>6, <1>7, <1>8, <1>9, <1>10
  DEF UploadStep

\* So do task actions.
LEMMA TaskLocks ==
  ASSUME IInv, LocksAreInUse, NEW v \in Uploads,
         \/ TaskStep(v)
         \/ TaskDbFails(v)
         \/ CommitReadyUnacknowledged(v)
         \/ RecordFailureFails(v)
  PROVE  LocksAreInUse'
<1> USE DEF LocksAreInUse, HasNumber, IInv, TypeOK, vars, request, task, tables,
            locks, faults
<1>0. upc[v] # "done" => tpc[v] = "none"
  BY DEF TablesFollowProgress
<1>1. CASE ParseSucceeds(v)
  BY <1>1 DEF ParseSucceeds
<1>2. CASE ParseFails(v)
  BY <1>2 DEF ParseFails
<1>3. CASE BulkCreate(v)
  BY <1>3 DEF BulkCreate, TakeWriter
<1>4. CASE MarkReady(v)
  BY <1>4 DEF MarkReady, TakeWriter
<1>5. CASE CommitReady(v)
  BY <1>0, <1>5 DEF CommitReady, Publish, Release
<1>6. CASE RecordFailure(v)
  BY <1>6 DEF RecordFailure
<1>7. CASE FailureNotRecorded(v)
  BY <1>7 DEF FailureNotRecorded
<1>8. CASE TaskDbFails(v)
  BY <1>0, <1>8 DEF TaskDbFails, Release, Fault
<1>9. CASE CommitReadyUnacknowledged(v)
  BY <1>0, <1>9 DEF CommitReadyUnacknowledged, Publish, Release, Fault
<1>10. CASE RecordFailureFails(v)
  BY <1>10 DEF RecordFailureFails, Fault
<1>11. QED
  BY <1>1, <1>2, <1>3, <1>4, <1>5, <1>6, <1>7, <1>8, <1>9, <1>10
  DEF TaskStep

\* A row lock or the write lock is only ever held by a session in the middle of
\* the transaction that took it: commits, rollbacks, lost connections and
\* crashes all give it back.
THEOREM LocksHeldInUse == Spec => []LocksAreInUse
<1>1. Init => LocksAreInUse
  BY DEF Init, LocksAreInUse
<1>2. IInv /\ LocksAreInUse /\ [Next]_vars => LocksAreInUse'
  <2> SUFFICES ASSUME IInv, LocksAreInUse, [Next]_vars PROVE LocksAreInUse'
    OBVIOUS
  <2>1. ASSUME NEW u \in Uploads,
               \/ \E d \in Docs : CreateDocument(u, d)
               \/ UploadStep(u) \/ TaskStep(u) \/ FaultStep(u)
        PROVE  LocksAreInUse'
    BY <2>1, UploadLocks, TaskLocks DEF FaultStep
  <2>2. CASE Crash
    BY <2>2 DEF Crash, LocksAreInUse
  <2>3. CASE Quiescent \/ UNCHANGED vars
    BY <2>3 DEF Quiescent, vars, request, task, tables, locks, faults,
                LocksAreInUse, HasNumber
  <2>4. QED
    BY <2>1, <2>2, <2>3 DEF Next
<1>3. QED
  BY <1>1, <1>2, Invariance, PTL DEF Spec

\* On either database whoever is waited for is not waiting itself: the holder of
\* a row lock has a number nobody else is inserting, and the holder of the write
\* lock has passed all its waits.
THEOREM NoWaitingChains == Spec => []NobodyWaitsForAWaiter
<1>1. IInv /\ LocksAreInUse => NobodyWaitsForAWaiter
  <2> SUFFICES ASSUME IInv, LocksAreInUse,
                      NEW u \in Uploads, NEW p \in BlockedBy(u),
                      NEW q \in BlockedBy(p)
               PROVE  FALSE
    BY DEF NobodyWaitsForAWaiter
  <2>0. /\ p \in Uploads /\ q \in Uploads /\ p # NoOne /\ q # NoOne
        /\ \A v \in Uploads : upc[v] # "done" => tpc[v] = "none"
    BY DEF BlockedBy, IInv, TablesFollowProgress
  <2>1. CASE upc[u] = "checked" /\ p = rowLock[docOf[u]]
    <3>1. docOf[u] \in Docs
      BY <2>1 DEF IInv, TablesFollowProgress, BeforeCommit
    <3>2. /\ RowLocks /\ writer = NoOne
          /\ upc[p] \in {"locked", "numbered", "inserted"}
      BY <2>0, <2>1, <3>1 DEF LocksAreInUse, HasNumber
    <3>3. upc[p] = "numbered" /\ q \in ClashesInFlight(p)
      BY <2>0, <3>2 DEF BlockedBy
    <3>4. rowLock[docOf[p]] = p /\ rowLock[docOf[q]] = q /\ docOf[q] = docOf[p] /\ q # p
      BY <2>0, <3>2, <3>3 DEF IInv, LockCoversNumber, HasNumber, ClashesInFlight
    <3>5. QED
      BY <3>4
  <2>2. CASE upc[u] = "numbered" /\ p \in ClashesInFlight(u)
    <3>1. upc[p] = "inserted" /\ tpc[p] = "none"
      BY <2>0, <2>2 DEF ClashesInFlight
    <3>2. QED
      BY <3>1 DEF BlockedBy
  <2>3. CASE p = writer
    <3>1. \/ upc[p] = "inserted" /\ tpc[p] = "none"
          \/ tpc[p] \in {"inserted", "marked"} /\ upc[p] = "done"
      BY <2>0, <2>3 DEF LocksAreInUse
    <3>2. q = writer /\ q # p
      BY <3>1 DEF BlockedBy
    <3>3. QED
      BY <2>3, <3>2
  <2>4. QED
    BY <2>1, <2>2, <2>3 DEF BlockedBy
<1>2. QED
  BY <1>1, Invariance, LocksHeldInUse, PTL

-----------------------------------------------------------------------------
(* READY and FAILED are final.                                             *)

LEMMA FinalStep ==
  ASSUME IInv, [Next]_vars, NEW v \in Uploads, status[v] \in {"ready", "failed"}
  PROVE  status'[v] = status[v] /\ nodes'[v] = nodes[v]
<1> USE DEF IInv, TypeOK, TablesFollowProgress, BeforeCommit
<1>1. ASSUME NEW u \in Uploads, NEW d \in Docs, CreateDocument(u, d)
      PROVE  UNCHANGED <<status, nodes>>
  BY <1>1 DEF CreateDocument
<1>2. ASSUME NEW u \in Uploads, UploadStep(u) \/ UploadFails(u)
             \/ CommitVersionUnacknowledged(u)
      PROVE  status'[v] = status[v] /\ nodes'[v] = nodes[v]
  BY <1>2 DEF UploadStep, CheckDocument, LockDocument, NextVersionNumber,
              InsertVersion, InsertClashes, CommitVersion, QueueTask,
              UploadFails, CommitVersionUnacknowledged, tables
<1>3. ASSUME NEW u \in Uploads,
             TaskStep(u) \/ TaskDbFails(u) \/ CommitReadyUnacknowledged(u)
             \/ RecordFailureFails(u)
      PROVE  status'[v] = status[v] /\ nodes'[v] = nodes[v]
  BY <1>3 DEF TaskStep, ParseSucceeds, ParseFails, BulkCreate, MarkReady,
              CommitReady, RecordFailure, FailureNotRecorded, TaskDbFails,
              CommitReadyUnacknowledged, RecordFailureFails, Publish, tables
<1>4. CASE Crash \/ Quiescent \/ UNCHANGED vars
  BY <1>4 DEF Crash, Quiescent, vars, tables
<1>5. QED
  BY <1>1, <1>2, <1>3, <1>4 DEF Next, FaultStep

\* No step changes the status or the tree of a READY or FAILED version.
THEOREM TerminalStatusStays == Spec => TerminalStatusIsFinal
<1>1. IInv /\ [Next]_vars =>
        [\A v \in Uploads : status[v] \in {"ready", "failed"} =>
           status'[v] = status[v] /\ nodes'[v] = nodes[v]]_vars
  BY FinalStep
<1>2. QED
  BY <1>1, Invariance, PTL DEF Spec, TerminalStatusIsFinal

-----------------------------------------------------------------------------
(* The service implements VersionCatalog.                                  *)

LEMMA FunctionIsSeq ==
  ASSUME NEW S, NEW k \in Nat, NEW f \in [1..k -> S]
  PROVE  f \in Seq(S) /\ Len(f) = k
OBVIOUS

LEMMA ExtendsIsAppend ==
  ASSUME NEW S, NEW s \in Seq(S), NEW e \in S, NEW t \in [1..(Len(s) + 1) -> S],
         \A n \in 1..Len(s) : t[n] = s[n],
         t[Len(s) + 1] = e
  PROVE  t = Append(s, e)
<1>1. Len(s) \in Nat /\ \A n \in 1..Len(s) : s[n] \in S
  OBVIOUS
<1>3. t \in Seq(S) /\ Len(t) = Len(s) + 1
  BY <1>1, FunctionIsSeq
<1>4. /\ Append(s, e) \in Seq(S)
      /\ Len(Append(s, e)) = Len(s) + 1
      /\ \A n \in 1..Len(s) : Append(s, e)[n] = s[n]
      /\ Append(s, e)[Len(s) + 1] = e
  BY AppendProperties
<1>5. ASSUME NEW n \in 1..Len(t) PROVE t[n] = Append(s, e)[n]
  <2>1. n = Len(s) + 1 \/ n \in 1..Len(s)
    BY <1>1, <1>3
  <2>2. QED
    BY <1>4, <2>1
<1>6. QED
  BY <1>3, <1>4, <1>5, SeqEqual

LEMMA InitCatalog == Init => Catalog!Init
<1> SUFFICES ASSUME Init PROVE Catalog!Init
  OBVIOUS
<1>1. \A d \in Docs : CatalogOf(d) = <<>>
  BY DEF Init, Versions, CatalogOf
<1>2. QED
  BY <1>1 DEF Init, Catalog!Init

\* In a gapless, unique numbering the row with a given number is the only one.
LEMMA RowOfNumber ==
  ASSUME IInv, NEW d \in Docs, NEW v \in Versions(d)
  PROVE  (CHOOSE w \in Versions(d) : number[w] = number[v]) = v
BY DEF IInv, UniqueNumbers

\* A commit appends the new version to its document's sequence.
LEMMA CommitAppends ==
  ASSUME IInv, IInv', NEW u \in Uploads,
         CommitVersion(u) \/ CommitVersionUnacknowledged(u),
         NEW d \in Docs, d = docOf[u]
  PROVE  CatalogOf(d)' = Append(CatalogOf(d), u)
<1> DEFINE k == number[u] - 1
<1>1. /\ upc[u] = "inserted"
      /\ status' = [status EXCEPT ![u] = "processing"]
      /\ UNCHANGED <<docOf, number>>
  BY DEF CommitVersion, CommitVersionUnacknowledged
<1>2. /\ status[u] = "none" /\ number[u] \in Nat /\ number[u] >= 1
      /\ \A i \in 1..k : \E w \in Versions(d) : number[w] = i
      /\ \A w \in Versions(d) : number[w] # number[u]
  BY <1>1 DEF IInv, TypeOK, TablesFollowProgress, BeforeCommit, HasNumber,
              PendingNumbersInReach, InsertedApart, Clashes
<1>3. Versions(d)' = Versions(d) \cup {u} /\ u \notin Versions(d)
  BY <1>1, <1>2 DEF Versions, IInv, TypeOK
<1>4. \A w \in Versions(d) : number[w] \in 1..k
  <2>1. ASSUME NEW w \in Versions(d) PROVE number[w] \in 1..k
    <3>1. number[w] \in Nat /\ number[w] >= 1
      BY DEF IInv, TypeOK, GaplessNumbers, Versions
    <3>2. ~(number[u] \in 1..number[w])
      BY <1>2 DEF IInv, GaplessNumbers
    <3>3. QED
      BY <1>2, <3>1, <3>2
  <2>2. QED
    BY <2>1
<1>5. {number[v] : v \in Versions(d)} = 1..k /\ k \in Nat
  BY <1>2, <1>4
<1>6. CatalogOf(d) = [n \in 1..k |-> CHOOSE v \in Versions(d) : number[v] = n]
  BY <1>5 DEF CatalogOf
<1>7. {number'[v] : v \in Versions(d)'} = 1..(k + 1)
  BY <1>1, <1>2, <1>3, <1>5
<1>8. CatalogOf(d)' =
        [n \in 1..(k + 1) |-> CHOOSE v \in Versions(d)' : number'[v] = n]
  BY <1>7 DEF CatalogOf
<1>9. \A n \in 1..k : CatalogOf(d)'[n] = CatalogOf(d)[n] /\ CatalogOf(d)[n] \in Uploads
  <2>1. ASSUME NEW n \in 1..k
        PROVE  CatalogOf(d)'[n] = CatalogOf(d)[n] /\ CatalogOf(d)[n] \in Uploads
    <3>1. PICK w \in Versions(d) : number[w] = n
      BY <1>2, <2>1
    <3>2. CatalogOf(d)[n] = w
      BY <1>6, <2>1, <3>1, RowOfNumber
    <3>3. \A x \in Versions(d)' : number'[x] = n => x = w
      BY <1>1, <1>3, <3>1 DEF IInv, UniqueNumbers
    <3>4. w \in Versions(d)' /\ number'[w] = n
      BY <1>1, <1>3, <3>1
    <3>5. (CHOOSE v \in Versions(d)' : number'[v] = n) = w
      BY <3>3, <3>4
    <3>6. CatalogOf(d)'[n] = w
      BY <1>8, <1>5, <2>1, <3>5
    <3>7. QED
      BY <3>2, <3>6 DEF Versions
  <2>2. QED
    BY <2>1
<1>10. CatalogOf(d)'[k + 1] = u
  <2>1. \A x \in Versions(d)' : number'[x] = k + 1 => x = u
    BY <1>1, <1>2, <1>3
  <2>2. u \in Versions(d)' /\ number'[u] = k + 1
    BY <1>1, <1>2, <1>3
  <2>3. (CHOOSE v \in Versions(d)' : number'[v] = k + 1) = u
    BY <2>1, <2>2
  <2>4. QED
    BY <1>5, <1>8, <2>3
<1>11. CatalogOf(d) \in Seq(Uploads) /\ Len(CatalogOf(d)) = k
  <2>1. CatalogOf(d) \in [1..k -> Uploads]
    BY <1>6, <1>9
  <2>2. QED
    BY <1>5, <2>1, FunctionIsSeq
<1>12. ASSUME NEW n \in 1..(k + 1) PROVE CatalogOf(d)'[n] \in Uploads
  <2>1. n = k + 1 \/ n \in 1..k
    BY <1>5
  <2>2. QED
    BY <1>9, <1>10, <2>1
<1>13. CatalogOf(d)' \in [1..(Len(CatalogOf(d)) + 1) -> Uploads]
  BY <1>8, <1>11, <1>12
<1>14. /\ \A n \in 1..Len(CatalogOf(d)) : CatalogOf(d)'[n] = CatalogOf(d)[n]
       /\ CatalogOf(d)'[Len(CatalogOf(d)) + 1] = u
  BY <1>9, <1>10, <1>11
<1>15. QED
  BY <1>11, <1>13, <1>14, ExtendsIsAppend

\* Steps that touch no row of the versions table leave the catalog alone.
LEMMA CatalogFrame ==
  ASSUME IInv, UNCHANGED status,
         \A v \in Uploads : status[v] # "none" =>
           number'[v] = number[v] /\ docOf'[v] = docOf[v]
  PROVE  \A d \in Docs : CatalogOf(d)' = CatalogOf(d)
<1> SUFFICES ASSUME NEW d \in Docs PROVE CatalogOf(d)' = CatalogOf(d)
  OBVIOUS
<1>1. Versions(d)' = Versions(d)
  BY DEF Versions
<1>2. \A v \in Versions(d) : number'[v] = number[v]
  BY DEF Versions
<1> DEFINE S == {number[v] : v \in Versions(d)}
<1>3. {number'[v] : v \in Versions(d)'} = S
  BY <1>1, <1>2
<1>4. ASSUME NEW n \in S PROVE CatalogOf(d)'[n] = CatalogOf(d)[n]
  <2>1. PICK w \in Versions(d) : number[w] = n
    OBVIOUS
  <2>2. \A x \in Versions(d) : number[x] = n => x = w
    BY <2>1 DEF IInv, UniqueNumbers
  <2>3. CatalogOf(d)[n] = w
    BY <2>1, <2>2 DEF CatalogOf
  <2>4. w \in Versions(d)' /\ number'[w] = n
    BY <1>1, <1>2, <2>1
  <2>5. \A x \in Versions(d)' : number'[x] = n => x = w
    BY <1>1, <1>2, <2>2
  <2>6. CatalogOf(d)'[n] = w
    BY <2>4, <2>5 DEF CatalogOf
  <2>7. QED
    BY <2>3, <2>6
<1>5. CatalogOf(d) = [n \in S |-> CatalogOf(d)[n]]
  BY DEF CatalogOf
<1>6. CatalogOf(d)' = [n \in S |-> CatalogOf(d)'[n]]
  BY <1>3 DEF CatalogOf
<1>7. QED
  BY <1>4, <1>5, <1>6

\* Changing the status of a row leaves the catalog alone too.
LEMMA CatalogStatusFrame ==
  ASSUME NEW u \in Uploads, NEW x \in Status \ {"none"}, TypeOK,
         status[u] # "none",
         status' = [status EXCEPT ![u] = x],
         UNCHANGED <<number, docOf>>
  PROVE  \A d \in Docs : CatalogOf(d)' = CatalogOf(d)
<1> SUFFICES ASSUME NEW d \in Docs PROVE CatalogOf(d)' = CatalogOf(d)
  OBVIOUS
<1>1. Versions(d)' = Versions(d)
  BY DEF Versions, TypeOK
<1>2. QED
  BY <1>1 DEF CatalogOf

LEMMA UploadCatalog ==
  ASSUME IInv, IInv', NEW u \in Uploads,
         \/ \E d \in Docs : CreateDocument(u, d)
         \/ UploadStep(u)
         \/ UploadFails(u)
         \/ CommitVersionUnacknowledged(u)
  PROVE  [Catalog!Next]_(Catalog!vars)
<1>1. CASE CommitVersion(u) \/ CommitVersionUnacknowledged(u)
  <2>1. /\ upc[u] = "inserted"
        /\ status' = [status EXCEPT ![u] = "processing"]
        /\ UNCHANGED <<docOf, number, nodes>>
    BY <1>1 DEF CommitVersion, CommitVersionUnacknowledged
  <2>2. docOf[u] \in Docs /\ status[u] = "none"
    BY <2>1 DEF IInv, TablesFollowProgress, BeforeCommit
  <2>3. \A d \in Docs : d = docOf[u] => CatalogOf(d)' = Append(CatalogOf(d), u)
    BY <1>1, CommitAppends
  <2>4. ASSUME NEW d \in Docs, d # docOf[u]
        PROVE  CatalogOf(d)' = CatalogOf(d)
    <3>1. Versions(d)' = Versions(d)
      BY <2>1, <2>2, <2>4 DEF Versions, IInv, TypeOK
    <3>2. QED
      BY <2>1, <3>1 DEF CatalogOf
  <2>5. [d \in Docs |-> CatalogOf(d)]'
          = [[d \in Docs |-> CatalogOf(d)] EXCEPT
               ![docOf[u]] = Append(CatalogOf(docOf[u]), u)]
    BY <2>2, <2>3, <2>4
  <2>6. Catalog!AddVersion(docOf[u], u)
    BY <2>1, <2>2, <2>5 DEF Catalog!AddVersion
  <2>7. QED
    BY <2>2, <2>6 DEF Catalog!Next
<1>2. CASE ~(CommitVersion(u) \/ CommitVersionUnacknowledged(u))
  <2>1. UNCHANGED <<status, nodes>>
    BY <1>2 DEF CreateDocument, UploadStep, CheckDocument, LockDocument,
                NextVersionNumber, InsertVersion, InsertClashes, QueueTask,
                UploadFails, tables
  <2>2. \A v \in Uploads : status[v] # "none" =>
          number'[v] = number[v] /\ docOf'[v] = docOf[v]
    BY <1>2 DEF IInv, TypeOK, TablesFollowProgress, BeforeCommit,
                CreateDocument, UploadStep, CheckDocument, LockDocument,
                NextVersionNumber, InsertVersion, InsertClashes, QueueTask,
                UploadFails
  <2>3. \A d \in Docs : CatalogOf(d)' = CatalogOf(d)
    BY <2>1, <2>2, CatalogFrame
  <2>4. QED
    BY <2>1, <2>3 DEF Catalog!vars
<1>3. QED
  BY <1>1, <1>2

LEMMA TaskCatalog ==
  ASSUME IInv, NEW v \in Uploads,
         \/ TaskStep(v)
         \/ TaskDbFails(v)
         \/ CommitReadyUnacknowledged(v)
         \/ RecordFailureFails(v)
  PROVE  [Catalog!Next]_(Catalog!vars)
<1> USE DEF IInv, TypeOK, TablesFollowProgress
<1>1. CASE CommitReady(v) \/ CommitReadyUnacknowledged(v)
  <2>1. /\ status[v] = "processing"
        /\ status' = [status EXCEPT ![v] = "ready"]
        /\ nodes' = [nodes EXCEPT ![v] = parsed[v]]
        /\ UNCHANGED <<number, docOf>>
    BY <1>1 DEF CommitReady, CommitReadyUnacknowledged, Publish, request
  <2>2. \A d \in Docs : CatalogOf(d)' = CatalogOf(d)
    BY <2>1, CatalogStatusFrame DEF Status
  <2>3. Catalog!Resolve(v, parsed[v])
    BY <2>1, <2>2 DEF Catalog!Resolve
  <2>4. QED
    BY <2>3 DEF Catalog!Next
<1>2. CASE RecordFailure(v)
  <2>1. /\ status[v] = "processing"
        /\ status' = [status EXCEPT ![v] = "failed"]
        /\ UNCHANGED <<nodes, number, docOf>>
    BY <1>2 DEF RecordFailure, request
  <2>2. \A d \in Docs : CatalogOf(d)' = CatalogOf(d)
    BY <2>1, CatalogStatusFrame DEF Status
  <2>3. Catalog!Reject(v)
    BY <2>1, <2>2 DEF Catalog!Reject
  <2>4. QED
    BY <2>3 DEF Catalog!Next
<1>3. CASE ~(CommitReady(v) \/ CommitReadyUnacknowledged(v) \/ RecordFailure(v))
  <2>1. UNCHANGED <<status, nodes, number, docOf>>
    BY <1>3 DEF TaskStep, ParseSucceeds, ParseFails, BulkCreate, MarkReady,
                FailureNotRecorded, TaskDbFails, RecordFailureFails, request, tables
  <2>2. QED
    BY <2>1, CatalogFrame DEF Catalog!vars
<1>4. QED
  BY <1>1, <1>2, <1>3

\* Every step of the service is a step of the catalog or invisible to it.
LEMMA NextCatalog ==
  IInv /\ IInv' /\ [Next]_vars => [Catalog!Next]_(Catalog!vars)
<1> SUFFICES ASSUME IInv, IInv', [Next]_vars PROVE [Catalog!Next]_(Catalog!vars)
  OBVIOUS
<1>1. ASSUME NEW u \in Uploads,
             \/ \E d \in Docs : CreateDocument(u, d)
             \/ UploadStep(u) \/ TaskStep(u) \/ FaultStep(u)
      PROVE  [Catalog!Next]_(Catalog!vars)
  BY <1>1, UploadCatalog, TaskCatalog DEF FaultStep
<1>2. CASE Crash \/ Quiescent \/ UNCHANGED vars
  <2>1. UNCHANGED <<status, nodes, number, docOf>>
    BY <1>2 DEF Crash, Quiescent, vars, request, tables
  <2>2. QED
    BY <2>1, CatalogFrame DEF Catalog!vars
<1>3. QED
  BY <1>1, <1>2 DEF Next

\* Clients of the service see exactly a VersionCatalog.
THEOREM Refinement == Spec => ImplementsCatalog
<1>1. Init => Catalog!Init
  BY InitCatalog
<1>2. IInv /\ IInv' /\ [Next]_vars => [Catalog!Next]_(Catalog!vars)
  BY NextCatalog
<1>3. QED
  BY <1>1, <1>2, Invariance, PTL DEF Spec, ImplementsCatalog, Catalog!Spec
=============================================================================
