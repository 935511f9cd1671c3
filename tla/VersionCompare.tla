--------------------------- MODULE VersionCompare ---------------------------
(***************************************************************************)
(* VersionService.compare_versions running beside uploads and parse tasks. *)
(* A comparison is four queries in one READ COMMITTED session, with        *)
(* anything in between: the newer version, the base version, the newer     *)
(* tree, the base tree.  What the diff then says of the two trees is       *)
(* DiffEngine; here a tree is the number of its nodes.                     *)
(***************************************************************************)
EXTENDS VersionLifecycle

CONSTANT Readers    \* diff requests

VARIABLES
  rpc,         \* where each comparison stands
  newer,       \* new_version_id
  base,        \* the older version, or NoOne: compare with nothing
  explicit,    \* the client named the base (compare_to_version_id)
  baseStatus,  \* history: the base's status when its row was read
  newTree, baseTree   \* the two trees read

comparison == <<rpc, newer, base, explicit, baseStatus, newTree, baseTree>>

CompareTypeOK ==
  /\ rpc \in [Readers -> {"idle", "ready", "based", "halfread", "answered", "refused", "lost"}]
  /\ newer \in [Readers -> Uploads \cup {NoOne}]
  /\ base \in [Readers -> Uploads \cup {NoOne}]
  /\ explicit \in [Readers -> BOOLEAN]
  /\ baseStatus \in [Readers -> Status]
  /\ newTree \in [Readers -> 0..MaxNodes]
  /\ baseTree \in [Readers -> 0..MaxNodes]

CompareInit ==
  /\ Init
  /\ rpc = [r \in Readers |-> "idle"]
  /\ newer = [r \in Readers |-> NoOne]
  /\ base = [r \in Readers |-> NoOne]
  /\ explicit = [r \in Readers |-> FALSE]
  /\ baseStatus = [r \in Readers |-> "none"]
  /\ newTree = [r \in Readers |-> 0]
  /\ baseTree = [r \in Readers |-> 0]

\* get_version_or_raise and the READY check on the version to be compared.
GetNewer(r, v) ==
  /\ rpc[r] = "idle"
  /\ newer' = [newer EXCEPT ![r] = v]
  /\ rpc' = [rpc EXCEPT ![r] = IF status[v] = "ready" THEN "ready" ELSE "refused"]
  /\ UNCHANGED <<base, explicit, baseStatus, newTree, baseTree>>

\* Seeded fault: get_previous_version is ordered upwards.
IsFirstBefore(v, w) ==
  /\ w \in Versions(docOf[v])
  /\ number[w] < number[v]
  /\ \A x \in Versions(docOf[v]) : number[w] <= number[x]

\* w has the highest number below v's among the rows of the document.
IsPrevious(v, w) ==
  /\ w \in Versions(docOf[v])
  /\ number[w] < number[v]
  /\ \A x \in Versions(docOf[v]) : number[x] < number[v] => number[x] <= number[w]

\* No compare_to_version_id: get_previous_version.  The row found is used
\* whatever its status is.
BaseOnPrevious(r) ==
  /\ rpc[r] = "ready"
  /\ \/ \E w \in Uploads :
          /\ IsPrevious(newer[r], w)
          /\ base' = [base EXCEPT ![r] = w]
          /\ baseStatus' = [baseStatus EXCEPT ![r] = status[w]]
     \/ /\ ~ \E w \in Uploads : IsPrevious(newer[r], w)
        /\ UNCHANGED <<base, baseStatus>>
  /\ rpc' = [rpc EXCEPT ![r] = "based"]
  /\ UNCHANGED <<newer, explicit, newTree, baseTree>>

\* Seeded fault: the checks on a named base are left out.
AcceptsEverything(v, w) == status[w] # "none"

\* A named base must exist, be READY and belong to the same document.
Accepts(v, w) == status[w] = "ready" /\ docOf[w] = docOf[v]

BaseOnNamed(r, w) ==
  /\ rpc[r] = "ready"
  /\ explicit' = [explicit EXCEPT ![r] = TRUE]
  /\ base' = [base EXCEPT ![r] = w]
  /\ baseStatus' = [baseStatus EXCEPT ![r] = status[w]]
  /\ rpc' = [rpc EXCEPT ![r] = IF Accepts(newer[r], w) THEN "based" ELSE "refused"]
  /\ UNCHANGED <<newer, newTree, baseTree>>

\* get_nodes_for_diff of the newer version.
ReadNewer(r) ==
  /\ rpc[r] = "based"
  /\ newTree' = [newTree EXCEPT ![r] = nodes[newer[r]]]
  /\ rpc' = [rpc EXCEPT ![r] = "halfread"]
  /\ UNCHANGED <<newer, base, explicit, baseStatus, baseTree>>

\* get_nodes_for_diff of the base, if there is one; the diff is computed and
\* returned.
ReadBase(r) ==
  /\ rpc[r] = "halfread"
  /\ baseTree' = [baseTree EXCEPT ![r] = IF base[r] = NoOne THEN 0 ELSE nodes[base[r]]]
  /\ rpc' = [rpc EXCEPT ![r] = "answered"]
  /\ UNCHANGED <<newer, base, explicit, baseStatus, newTree>>

\* A crash of the server takes the running comparisons with it.
ComparisonsLost ==
  /\ rpc' = [r \in Readers |-> IF rpc[r] \in {"ready", "based", "halfread"}
                                 THEN "lost" ELSE rpc[r]]
  /\ UNCHANGED <<newer, base, explicit, baseStatus, newTree, baseTree>>

CompareStep(r) ==
  \/ \E v \in Uploads : GetNewer(r, v)
  \/ BaseOnPrevious(r)
  \/ \E w \in Uploads : BaseOnNamed(r, w)
  \/ ReadNewer(r) \/ ReadBase(r)

CompareNext ==
  \/ \E r \in Readers : CompareStep(r) /\ UNCHANGED vars
  \/ Crash /\ ComparisonsLost
  \/ Next /\ crashes' = crashes /\ UNCHANGED comparison

CompareSpec == CompareInit /\ [][CompareNext]_<<vars, comparison>>

-----------------------------------------------------------------------------
\* "Defaults to the version immediately preceding new_version": the base is
\* numbered one below, or the newer version is number 1.  It needs the numbers
\* to be gapless and lower numbers to be committed first.
PreviousIsAdjacent ==
  \A r \in Readers : rpc[r] \in {"based", "halfread", "answered"} /\ ~explicit[r] =>
    IF base[r] = NoOne THEN number[newer[r]] = 1
    ELSE docOf[base[r]] = docOf[newer[r]] /\ number[base[r]] + 1 = number[newer[r]]

\* An answered comparison with a base that was READY stays true: repeated at
\* any later time it reads the same two trees, of one document.  Published
\* trees are whole and never change, and a named base is READY.
AnswerStaysTrue ==
  \A r \in Readers :
    rpc[r] = "answered" /\ (explicit[r] \/ baseStatus[r] = "ready") =>
      /\ newTree[r] = nodes[newer[r]]
      /\ baseTree[r] = nodes[base[r]]
      /\ docOf[base[r]] = docOf[newer[r]]

(* The inductive invariant behind them, beside IInv of VersionLifecycle.   *)

Based == {"based", "halfread", "answered"}

\* versions.document_id refers to a document.
RowsHaveDocuments == \A v \in Uploads : status[v] # "none" => docOf[v] \in Docs

\* What a comparison has found stays so: committed rows keep their numbers and
\* documents, READY ones their trees.
FoundRowsHold ==
  \A r \in Readers :
    /\ rpc[r] \in {"idle", "ready"} => /\ base[r] = NoOne /\ ~explicit[r]
                                      /\ baseStatus[r] = "none"
    /\ rpc[r] \in {"ready"} \cup Based => newer[r] \in Uploads /\ status[newer[r]] = "ready"
    /\ rpc[r] \in Based /\ base[r] # NoOne =>
         /\ status[base[r]] # "none" /\ docOf[base[r]] = docOf[newer[r]]
         /\ baseStatus[r] = "ready" => status[base[r]] = "ready"
    /\ rpc[r] \in Based /\ explicit[r] => baseStatus[r] = "ready"
    /\ baseStatus[r] # "none" => base[r] # NoOne

ReadTreesHold ==
  \A r \in Readers :
    /\ rpc[r] \in {"halfread", "answered"} => newTree[r] = nodes[newer[r]]
    /\ rpc[r] = "answered" /\ baseStatus[r] = "ready" => baseTree[r] = nodes[base[r]]

CompareIInv ==
  /\ IInv /\ CompareTypeOK /\ RowsHaveDocuments
  /\ FoundRowsHold /\ ReadTreesHold /\ PreviousIsAdjacent

-----------------------------------------------------------------------------
\* A diff against "a version that is still being processed (PROCESSING) or has
\* failed (FAILED)" raises VersionNotReadyError (domain/exceptions.py:197-199).
BaseWasReady ==
  \A r \in Readers :
    rpc[r] = "answered" /\ base[r] # NoOne => baseStatus[r] = "ready"
=============================================================================
