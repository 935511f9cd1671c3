----------------------- MODULE VersionCompare_proofs -----------------------
(***************************************************************************)
(* Theorems of VersionCompare, resting on the inductive invariant of       *)
(* VersionLifecycle: any number of uploads, documents and comparisons.     *)
(***************************************************************************)
EXTENDS VersionCompare, VersionLifecycle_proofs

LEMMA CompareInitInv == CompareInit => CompareIInv
<1> SUFFICES ASSUME CompareInit PROVE CompareIInv
  OBVIOUS
<1>1. IInv
  BY InitIInv DEF CompareInit
<1>2. CompareTypeOK
  BY LifecycleAssumption DEF CompareInit, CompareTypeOK, Status
<1>3. RowsHaveDocuments /\ FoundRowsHold /\ ReadTreesHold /\ PreviousIsAdjacent
  BY DEF CompareInit, Init, RowsHaveDocuments, FoundRowsHold, ReadTreesHold,
         PreviousIsAdjacent, Based
<1>4. QED
  BY <1>1, <1>2, <1>3 DEF CompareIInv

-----------------------------------------------------------------------------
(* What the lifecycle's steps leave alone.                                 *)

\* A committed row stays, with its document and its number.
LEMMA RowsStay ==
  ASSUME IInv, [Next]_vars, NEW v \in Uploads, status[v] # "none"
  PROVE  status'[v] # "none" /\ docOf'[v] = docOf[v] /\ number'[v] = number[v]
<1> USE DEF IInv, TypeOK, TablesFollowProgress, BeforeCommit
<1>1. ASSUME NEW u \in Uploads, NEW d \in Docs, CreateDocument(u, d)
      PROVE  /\ status'[v] # "none" /\ docOf'[v] = docOf[v] /\ number'[v] = number[v]
  BY <1>1 DEF CreateDocument
<1>2. ASSUME NEW u \in Uploads,
             UploadStep(u) \/ UploadFails(u) \/ CommitVersionUnacknowledged(u)
      PROVE  /\ status'[v] # "none" /\ docOf'[v] = docOf[v] /\ number'[v] = number[v]
  BY <1>2 DEF UploadStep, CheckDocument, LockDocument, NextVersionNumber,
              InsertVersion, InsertClashes, CommitVersion, QueueTask,
              UploadFails, CommitVersionUnacknowledged, tables
<1>3. ASSUME NEW u \in Uploads,
             TaskStep(u) \/ TaskDbFails(u) \/ CommitReadyUnacknowledged(u)
             \/ RecordFailureFails(u)
      PROVE  /\ status'[v] # "none" /\ docOf'[v] = docOf[v] /\ number'[v] = number[v]
  BY <1>3 DEF TaskStep, ParseSucceeds, ParseFails, BulkCreate, MarkReady,
              CommitReady, RecordFailure, FailureNotRecorded, TaskDbFails,
              CommitReadyUnacknowledged, RecordFailureFails, Publish, tables, request
<1>4. CASE Crash \/ Quiescent \/ UNCHANGED vars
  BY <1>4 DEF Crash, Quiescent, vars, tables, request
<1>5. QED
  BY <1>1, <1>2, <1>3, <1>4 DEF Next, FaultStep

\* A row that is committed has a document.
LEMMA NewRowsHaveDocuments ==
  ASSUME IInv, RowsHaveDocuments, [Next]_vars
  PROVE  RowsHaveDocuments'
<1> SUFFICES ASSUME NEW v \in Uploads, status[v] = "none", status'[v] # "none"
             PROVE  docOf'[v] \in Docs
  BY RowsStay DEF RowsHaveDocuments
<1> USE DEF IInv, TypeOK, TablesFollowProgress, BeforeCommit
<1>1. ASSUME NEW u \in Uploads, CommitVersion(u) \/ CommitVersionUnacknowledged(u)
      PROVE  docOf'[v] \in Docs
  BY <1>1 DEF CommitVersion, CommitVersionUnacknowledged
<1>2. ASSUME NEW u \in Uploads, CommitReady(u) \/ CommitReadyUnacknowledged(u)
                                \/ RecordFailure(u)
      PROVE  FALSE
  BY <1>2 DEF CommitReady, CommitReadyUnacknowledged, RecordFailure, Publish
<1>3. ASSUME UNCHANGED status PROVE FALSE
  BY <1>3
<1>4. \/ UNCHANGED status
      \/ \E u \in Uploads :
           \/ CommitVersion(u) \/ CommitVersionUnacknowledged(u)
           \/ CommitReady(u) \/ CommitReadyUnacknowledged(u) \/ RecordFailure(u)
  BY DEF Next, CreateDocument, UploadStep, CheckDocument, LockDocument,
         NextVersionNumber, InsertVersion, InsertClashes, QueueTask, UploadFails,
         TaskStep, ParseSucceeds, ParseFails, BulkCreate, MarkReady,
         FailureNotRecorded, FaultStep, TaskDbFails, RecordFailureFails,
         Crash, Quiescent, vars, tables
<1>5. QED
  BY <1>1, <1>2, <1>3, <1>4

\* So what comparisons hold survives every step of uploads, tasks and faults.
LEMMA LifecycleKeepsFindings ==
  ASSUME CompareIInv, [Next]_vars,
         UNCHANGED <<newer, base, explicit, baseStatus, newTree, baseTree>>,
         \A r \in Readers : rpc'[r] = rpc[r] \/ rpc'[r] = "lost",
         rpc' \in [Readers -> {"idle", "ready", "based", "halfread", "answered", "refused", "lost"}]
  PROVE  CompareIInv'
<1>1. IInv' /\ CompareTypeOK'
  BY NextIInv DEF CompareIInv, CompareTypeOK
<1>2. \A v \in Uploads : status[v] # "none" =>
        status'[v] # "none" /\ docOf'[v] = docOf[v] /\ number'[v] = number[v]
  BY RowsStay DEF CompareIInv
<1>3. \A v \in Uploads : status[v] = "ready" =>
        status'[v] = "ready" /\ nodes'[v] = nodes[v]
  BY FinalStep DEF CompareIInv
<1> USE DEF CompareIInv, CompareTypeOK, FoundRowsHold, Based
<1>4. FoundRowsHold'
  BY <1>2, <1>3
<1>5. ReadTreesHold'
  BY <1>2, <1>3 DEF ReadTreesHold
<1>6. PreviousIsAdjacent'
  BY <1>2, <1>3 DEF PreviousIsAdjacent
<1>7. RowsHaveDocuments'
  BY NewRowsHaveDocuments
<1>8. QED
  BY <1>1, <1>4, <1>5, <1>6, <1>7

-----------------------------------------------------------------------------
(* The steps of a comparison.                                              *)

\* In a gapless numbering the highest number below n is n - 1.
LEMMA HighestBelowIsAdjacent ==
  ASSUME IInv, RowsHaveDocuments, NEW v \in Uploads, status[v] # "none"
  PROVE  /\ \A w : IsPrevious(v, w) => number[w] + 1 = number[v]
         /\ (~ \E w \in Uploads : IsPrevious(v, w)) => number[v] = 1
<1>1. /\ docOf[v] \in Docs /\ v \in Versions(docOf[v])
      /\ number[v] \in Nat /\ number[v] >= 1
      /\ \A w \in Versions(docOf[v]) : w \in Uploads /\ number[w] \in Nat
  BY DEF IInv, TypeOK, Versions, GaplessNumbers, RowsHaveDocuments
<1>2. ASSUME number[v] # 1
      PROVE  \E w \in Versions(docOf[v]) :
               number[w] + 1 = number[v] /\ IsPrevious(v, w)
  <2>1. number[v] - 1 \in 1..number[v]
    BY <1>1, <1>2
  <2>2. PICK w \in Versions(docOf[v]) : number[w] = number[v] - 1
    BY <1>1, <2>1 DEF IInv, GaplessNumbers
  <2>3. IsPrevious(v, w)
    BY <1>1, <2>2 DEF IsPrevious
  <2>4. QED
    BY <1>1, <2>2, <2>3
<1>3. ASSUME NEW w, IsPrevious(v, w) PROVE number[w] + 1 = number[v]
  <2>1. w \in Versions(docOf[v]) /\ number[w] < number[v] /\ number[w] >= 1
    BY <1>1, <1>3 DEF IsPrevious, IInv, GaplessNumbers
  <2>2. PICK x \in Versions(docOf[v]) : number[x] + 1 = number[v]
    BY <1>1, <1>2, <2>1
  <2>3. number[x] <= number[w]
    BY <1>1, <1>3, <2>2 DEF IsPrevious
  <2>4. QED
    BY <1>1, <2>1, <2>2, <2>3
<1>4. QED
  BY <1>1, <1>2, <1>3

LEMMA CompareStepKeeps ==
  ASSUME CompareIInv, NEW r \in Readers, CompareStep(r), UNCHANGED vars
  PROVE  CompareIInv'
<1>0. IInv' /\ IInv /\ TypeOK
  BY DEF CompareIInv, IInv, vars, request, task, tables, locks, faults,
         TypeOK, TablesFollowProgress, TreePublishedWithReady, PendingNumbersInReach,
         InsertedApart, Clashes, ClashesInFlight, UniqueNumbers, GaplessNumbers,
         LockCoversNumber, NoNumberConflict, Versions
<1>u. UNCHANGED <<status, docOf, number, nodes>>
  BY DEF vars, request, tables
<1> USE <1>0, <1>u DEF CompareIInv, CompareTypeOK, RowsHaveDocuments, FoundRowsHold,
                       ReadTreesHold, PreviousIsAdjacent, Based
<1>1. ASSUME NEW v \in Uploads, GetNewer(r, v) PROVE CompareIInv'
  BY <1>1 DEF GetNewer
<1>2. CASE BaseOnPrevious(r)
  <2>1. newer[r] \in Uploads /\ status[newer[r]] = "ready"
    BY <1>2 DEF BaseOnPrevious
  <2>2. CASE \E w \in Uploads : IsPrevious(newer[r], w)
    <3>1. PICK w \in Uploads :
            /\ IsPrevious(newer[r], w)
            /\ base' = [base EXCEPT ![r] = w]
            /\ baseStatus' = [baseStatus EXCEPT ![r] = status[w]]
      BY <1>2, <2>2 DEF BaseOnPrevious
    <3>2. /\ number[w] + 1 = number[newer[r]]
          /\ status[w] # "none" /\ docOf[w] = docOf[newer[r]]
          /\ status[w] \in Status
      BY <2>1, <3>1, HighestBelowIsAdjacent DEF IsPrevious, Versions, TypeOK
    <3>3. QED
      BY <1>2, <3>1, <3>2, LifecycleAssumption DEF BaseOnPrevious
  <2>3. CASE ~ \E w \in Uploads : IsPrevious(newer[r], w)
    <3>1. number[newer[r]] = 1
      BY <2>1, <2>3, HighestBelowIsAdjacent
    <3>2. QED
      BY <1>2, <2>3, <3>1 DEF BaseOnPrevious
  <2>4. QED
    BY <2>2, <2>3
<1>3. ASSUME NEW w \in Uploads, BaseOnNamed(r, w) PROVE CompareIInv'
  BY <1>3, LifecycleAssumption DEF BaseOnNamed, Accepts, TypeOK
<1>4. CASE ReadNewer(r)
  BY <1>4 DEF ReadNewer, TypeOK
<1>5. CASE ReadBase(r)
  BY <1>5, LifecycleAssumption DEF ReadBase, TypeOK
<1>6. QED
  BY <1>1, <1>2, <1>3, <1>4, <1>5 DEF CompareStep

LEMMA CompareNextInv ==
  CompareIInv /\ [CompareNext]_<<vars, comparison>> => CompareIInv'
<1> SUFFICES ASSUME CompareIInv, [CompareNext]_<<vars, comparison>>
             PROVE  CompareIInv'
  OBVIOUS
<1>1. ASSUME NEW r \in Readers, CompareStep(r), UNCHANGED vars PROVE CompareIInv'
  BY <1>1, CompareStepKeeps
<1>2. CASE Crash /\ ComparisonsLost
  <2>1. [Next]_vars
    BY <1>2 DEF Next
  <2>2. QED
    BY <1>2, <2>1, LifecycleKeepsFindings DEF ComparisonsLost, CompareIInv, CompareTypeOK
<1>3. CASE [Next]_vars /\ UNCHANGED comparison
  BY <1>3, LifecycleKeepsFindings DEF comparison, CompareIInv, CompareTypeOK
<1>4. QED
  BY <1>1, <1>2, <1>3 DEF CompareNext

-----------------------------------------------------------------------------
(* Theorems.                                                               *)

\* The inductive invariant of uploads, tasks and comparisons together.
THEOREM CompareInvariance == CompareSpec => []CompareIInv
BY CompareInitInv, CompareNextInv, PTL DEF CompareSpec

\* The default base of a diff is the version numbered one below.
THEOREM DefaultBaseIsAdjacent == CompareSpec => []PreviousIsAdjacent
<1>1. CompareIInv => PreviousIsAdjacent
  BY DEF CompareIInv
<1>2. QED
  BY CompareInvariance, <1>1, PTL

\* An answer computed from READY versions agrees with the tables for good.
THEOREM AnswersStayTrue == CompareSpec => []AnswerStaysTrue
<1>1. CompareIInv => AnswerStaysTrue
  BY DEF CompareIInv, AnswerStaysTrue, FoundRowsHold, ReadTreesHold, Based
<1>2. QED
  BY CompareInvariance, <1>1, PTL
=============================================================================
