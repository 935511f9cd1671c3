--------------------------- MODULE VersionCatalog ---------------------------
(***************************************************************************)
(* What version management promises its clients, without requests, tasks,  *)
(* transactions or failures: every document has an append-only sequence of *)
(* versions, the position in it is the version number, and each version is *)
(* resolved at most once, either READY with its whole tree or FAILED       *)
(* with none.                                                              *)
(***************************************************************************)
EXTENDS Naturals, Sequences

CONSTANTS
  Docs,      \* document ids
  Ids,       \* version ids
  MaxNodes   \* largest tree

VARIABLES
  catalog,   \* catalog[d][n] is version n of document d
  outcome,   \* "none" (not in a catalog), "processing", "ready" or "failed"
  tree       \* the number of nodes a reader of the version sees

vars == <<catalog, outcome, tree>>

Init ==
  /\ catalog = [d \in Docs |-> <<>>]
  /\ outcome = [v \in Ids |-> "none"]
  /\ tree = [v \in Ids |-> 0]

\* A new version enters at the end of its document's sequence.
AddVersion(d, v) ==
  /\ outcome[v] = "none"
  /\ catalog' = [catalog EXCEPT ![d] = Append(@, v)]
  /\ outcome' = [outcome EXCEPT ![v] = "processing"]
  /\ UNCHANGED tree

\* Processing ends: a tree of n nodes appears together with READY.
Resolve(v, n) ==
  /\ outcome[v] = "processing"
  /\ outcome' = [outcome EXCEPT ![v] = "ready"]
  /\ tree' = [tree EXCEPT ![v] = n]
  /\ UNCHANGED catalog

\* Processing ends without a tree.
Reject(v) ==
  /\ outcome[v] = "processing"
  /\ outcome' = [outcome EXCEPT ![v] = "failed"]
  /\ UNCHANGED <<catalog, tree>>

Next ==
  \E v \in Ids :
    \/ \E d \in Docs : AddVersion(d, v)
    \/ \E n \in 0..MaxNodes : Resolve(v, n)
    \/ Reject(v)

Spec == Init /\ [][Next]_vars
=============================================================================
