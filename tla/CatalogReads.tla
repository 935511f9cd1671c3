---------------------------- MODULE CatalogReads ----------------------------
(***************************************************************************)
(* Clients of the version catalog: walks through the paginated lists of    *)
(* documents, versions and nodes (list_documents, list_versions,           *)
(* list_nodes), and requests for selections of nodes (create_selection).   *)
(* They read the committed tables beside whatever the service does to      *)
(* them, which is what VersionCatalog says; VersionLifecycle implements    *)
(* it.  Every request is several queries, each of which sees what is       *)
(* committed when it runs.                                                 *)
(***************************************************************************)
EXTENDS VersionCatalog, FiniteSets

CONSTANTS
  Walkers,    \* clients that walk through one list, page by page
  Selectors,  \* requests to POST /selections
  Limit,      \* the limit of each page
  NoNode,     \* an id that no node has
  MaxChosen   \* bound: nodes named in a selection request

ASSUME ReadsAssumption ==
  /\ IsFiniteSet(Docs)
  /\ Limit \in Nat \ {0}
  /\ MaxNodes \in Nat
  /\ MaxChosen \in Nat
  /\ NoNode \notin Ids \X (1..MaxNodes)

VARIABLES
  documents,  \* committed document rows
  age,        \* place of each document, present or to come, in ORDER BY created_at DESC
              \* (equal times keep one order in all queries)
  wpc,        \* where each walk stands
  list,       \* which list it walks through
  offset,     \* the offset it asks for
  total,      \* the total of the page it is asking for, or the last
  seen,       \* <<i, row>>: the row the client got as its i-th
  known,      \* history: the documents there were when the walk began
  spc,        \* where each selection request stands
  scope,      \* its version_id
  chosen,     \* its node_ids
  next,       \* the node to be looked up next
  foreign,    \* distinct_versions is not empty
  row,        \* committed rows of selections
  links       \* committed rows of selection_nodes

table      == <<catalog, outcome, tree, documents>>
walk       == <<wpc, list, offset, total, seen, known>>
selecting  == <<spc, scope, chosen, next, foreign, row, links>>
reads      == <<table, age, walk, selecting>>

\* A list is named by a record, so that each kind has its own ids.
Lists == [kind : {"documents"}, of : {0}] \cup [kind : {"versions"}, of : Docs]
           \cup [kind : {"nodes"}, of : Ids]

\* A node is the n-th of a version's tree.
Nodes == Ids \X (1..MaxNodes)

\* The nodes an id of which can be found.
NodeRows == {x \in Nodes : outcome[x[1]] = "ready" /\ x[2] <= tree[x[1]]}

Requests == UNION {[1..n -> Nodes \cup {NoNode}] : n \in 0..MaxChosen}

Named(s) == {chosen[s][i] : i \in DOMAIN chosen[s]}

SelectPc == {"idle", "checking", "flushed", "created", "failed", "empty", "missing",
             "unready", "unknown", "crossed", "conflict"}

ReadsTypeOK ==
  /\ catalog \in [Docs -> Seq(Ids)]
  /\ outcome \in [Ids -> {"none", "processing", "ready", "failed"}]
  /\ tree \in [Ids -> 0..MaxNodes]
  /\ documents \in SUBSET Docs
  /\ age \in [Docs -> Nat]
  /\ wpc \in [Walkers -> {"idle", "asking", "checked", "counted", "finished", "refused"}]
  /\ list \in [Walkers -> Lists]
  /\ offset \in [Walkers -> Nat]
  /\ total \in [Walkers -> Nat]
  /\ seen \in [Walkers -> SUBSET (Nat \X (Docs \cup Nat))]
  /\ known \in [Walkers -> SUBSET Docs]
  /\ spc \in [Selectors -> SelectPc]
  /\ scope \in [Selectors -> Ids]
  /\ chosen \in [Selectors -> Requests]
  /\ next \in [Selectors -> Nat \ {0}]
  /\ foreign \in [Selectors -> BOOLEAN]
  /\ row \in [Selectors -> BOOLEAN]
  /\ links \in [Selectors -> SUBSET (Nodes \cup {NoNode})]

ReadsInit ==
  /\ Init
  /\ documents = {}
  /\ age \in {f \in [Docs -> 1..Cardinality(Docs)] :
                \A d, e \in Docs : f[d] = f[e] => d = e}
  /\ wpc = [w \in Walkers |-> "idle"]
  /\ list = [w \in Walkers |-> [kind |-> "documents", of |-> 0]]
  /\ offset = [w \in Walkers |-> 0]
  /\ total = [w \in Walkers |-> 0]
  /\ seen = [w \in Walkers |-> {}]
  /\ known = [w \in Walkers |-> {}]
  /\ spc = [s \in Selectors |-> "idle"]
  /\ scope \in [Selectors -> Ids]
  /\ chosen = [s \in Selectors |-> <<>>]
  /\ next = [s \in Selectors |-> 1]
  /\ foreign = [s \in Selectors |-> FALSE]
  /\ row = [s \in Selectors |-> FALSE]
  /\ links = [s \in Selectors |-> {}]

-----------------------------------------------------------------------------
\* create_document commits.
CreateDocument(d) ==
  /\ d \notin documents
  /\ documents' = documents \cup {d}
  /\ UNCHANGED <<vars, age, walk, selecting>>

\* The service adds or resolves a version; versions.document_id is a document's.
CatalogStep ==
  /\ Next
  /\ \A d \in Docs \ documents : catalog'[d] = catalog[d]
  /\ UNCHANGED <<documents, age, walk, selecting>>

-----------------------------------------------------------------------------
(* Paginated lists.                                                        *)

\* The rows a list has now.  A version is its number, a node its position.
Rows(l) ==
  CASE l.kind = "documents" -> documents
    [] l.kind = "versions"  -> DOMAIN catalog[l.of]
    [] l.kind = "nodes"     -> {n \in 1..MaxNodes : <<l.of, n>> \in NodeRows}

\* x comes before y, or is y: newest document first, lowest number first.
Before(l, x, y) == IF l.kind = "documents" THEN age[x] <= age[y] ELSE x <= y

\* The place of row x among the rows of its list, from 1.
Place(l, x) == Cardinality({y \in Rows(l) : Before(l, y, x)})

\* A client chooses the list to walk through.
StartWalk(w, l) ==
  /\ wpc[w] = "idle"
  /\ wpc' = [wpc EXCEPT ![w] = "asking"]
  /\ list' = [list EXCEPT ![w] = l]
  /\ known' = [known EXCEPT ![w] = documents]
  /\ UNCHANGED <<table, age, offset, total, seen, selecting>>

\* Seeded fault: list_nodes does not look at the status.
MayListAnyStatus(l) ==
  CASE l.kind = "documents" -> TRUE
    [] l.kind = "versions"  -> l.of \in documents
    [] l.kind = "nodes"     -> outcome[l.of] # "none"

\* The checks before the queries: list_versions wants the document to exist,
\* list_nodes wants the version to be READY.
MayList(l) ==
  CASE l.kind = "documents" -> TRUE
    [] l.kind = "versions"  -> l.of \in documents
    [] l.kind = "nodes"     -> outcome[l.of] = "ready"

CheckList(w) ==
  /\ wpc[w] = "asking"
  /\ wpc' = [wpc EXCEPT ![w] = IF MayList(list[w]) THEN "checked" ELSE "refused"]
  /\ UNCHANGED <<table, age, list, offset, total, seen, known, selecting>>

\* Seeded fault: the count has no WHERE.
CountAll(w) ==
  /\ wpc[w] = "checked"
  /\ wpc' = [wpc EXCEPT ![w] = "counted"]
  /\ total' = [total EXCEPT ![w] =
       IF list[w].kind = "versions" THEN Cardinality({v \in Ids : outcome[v] # "none"})
       ELSE Cardinality(Rows(list[w]))]
  /\ UNCHANGED <<table, age, list, offset, seen, known, selecting>>

\* SELECT count(*).
CountRows(w) ==
  /\ wpc[w] = "checked"
  /\ wpc' = [wpc EXCEPT ![w] = "counted"]
  /\ total' = [total EXCEPT ![w] = Cardinality(Rows(list[w]))]
  /\ UNCHANGED <<table, age, list, offset, seen, known, selecting>>

\* The page and the client's use of it: a full page makes it ask for the next.
TakePage(w, page) ==
  /\ seen' = [seen EXCEPT ![w] = @ \cup page]
  /\ IF Cardinality(page) = Limit
       THEN /\ wpc' = [wpc EXCEPT ![w] = "asking"]
            /\ offset' = [offset EXCEPT ![w] = @ + Limit]
       ELSE wpc' = [wpc EXCEPT ![w] = "finished"] /\ UNCHANGED offset

\* Seeded fault: ORDER BY is missing, any rows make the page.
FetchPageUnordered(w) ==
  /\ wpc[w] = "counted"
  /\ \E page \in SUBSET (((offset[w] + 1)..(offset[w] + Limit)) \X Rows(list[w])) :
       /\ Cardinality(page) = LET rest == Cardinality(Rows(list[w])) - offset[w]
                              IN IF rest > Limit THEN Limit ELSE IF rest < 0 THEN 0 ELSE rest
       /\ \A p, q \in page : p[1] = q[1] <=> p[2] = q[2]
       /\ \A p \in page : p[1] <= Cardinality(Rows(list[w]))
       /\ TakePage(w, page)
  /\ UNCHANGED <<table, age, list, total, known, selecting>>

\* SELECT ... ORDER BY ... OFFSET ... LIMIT.
FetchPage(w) ==
  /\ wpc[w] = "counted"
  /\ TakePage(w, {<<Place(list[w], x), x>> : x \in
                    {y \in Rows(list[w]) :
                       Place(list[w], y) \in (offset[w] + 1)..(offset[w] + Limit)}})
  /\ UNCHANGED <<table, age, list, total, known, selecting>>

\* A query raises or the process dies: the client asks for the same page again.
ReadFails(w) ==
  /\ wpc[w] \in {"checked", "counted"}
  /\ wpc' = [wpc EXCEPT ![w] = "asking"]
  /\ UNCHANGED <<table, age, list, offset, total, seen, known, selecting>>

-----------------------------------------------------------------------------
(* create_selection.                                                       *)

\* Ids of nodes are uuids: a client knows those it was shown, or has a wrong one.
Shown(c) == \A i \in DOMAIN c : c[i] \in NodeRows \cup {NoNode}

\* The list must not be empty, the version must exist and be READY.
GetVersion(s, c) ==
  /\ spc[s] = "idle"
  /\ chosen' = [chosen EXCEPT ![s] = c]
  /\ spc' = [spc EXCEPT ![s] =
       IF c = <<>> THEN "empty"
       ELSE IF outcome[scope[s]] = "none" THEN "missing"
       ELSE IF outcome[scope[s]] # "ready" THEN "unready" ELSE "checking"]
  /\ UNCHANGED <<table, age, walk, scope, next, foreign, row, links>>

\* Seeded fault: nodes are looked up in the version of the request only.
GetNodeOfVersion(s) ==
  /\ spc[s] = "checking"
  /\ next[s] <= Len(chosen[s])
  /\ LET x == chosen[s][next[s]] IN
       IF x \in NodeRows /\ x[1] = scope[s]
         THEN next' = [next EXCEPT ![s] = @ + 1] /\ UNCHANGED <<spc, foreign>>
         ELSE spc' = [spc EXCEPT ![s] = "unknown"] /\ UNCHANGED <<next, foreign>>
  /\ UNCHANGED <<table, age, walk, scope, chosen, row, links>>

\* One turn of the loop over node_ids.
GetNode(s) ==
  /\ spc[s] = "checking"
  /\ next[s] <= Len(chosen[s])
  /\ LET x == chosen[s][next[s]] IN
       IF x \in NodeRows
         THEN /\ next' = [next EXCEPT ![s] = @ + 1]
              /\ foreign' = [foreign EXCEPT ![s] = @ \/ x[1] # scope[s]]
              /\ UNCHANGED spc
         ELSE spc' = [spc EXCEPT ![s] = "unknown"] /\ UNCHANGED <<next, foreign>>
  /\ UNCHANGED <<table, age, walk, scope, chosen, row, links>>

\* Seeded fault: the row of the selection is committed on its own.
FlushCommitting(s) ==
  /\ spc[s] = "checking"
  /\ next[s] > Len(chosen[s])
  /\ spc' = [spc EXCEPT ![s] =
       IF foreign[s] THEN "crossed"
       ELSE IF Cardinality(Named(s)) < Len(chosen[s]) THEN "conflict" ELSE "flushed"]
  /\ row' = [row EXCEPT ![s] = ~foreign[s]]
  /\ UNCHANGED <<table, age, walk, scope, chosen, next, foreign, links>>

\* After the loop: nodes of another version are refused; then the selection and
\* its nodes are flushed, where a node named twice violates the primary key of
\* selection_nodes and the transaction is rolled back.
Flush(s) ==
  /\ spc[s] = "checking"
  /\ next[s] > Len(chosen[s])
  /\ spc' = [spc EXCEPT ![s] =
       IF foreign[s] THEN "crossed"
       ELSE IF Cardinality(Named(s)) < Len(chosen[s]) THEN "conflict" ELSE "flushed"]
  /\ UNCHANGED <<table, age, walk, scope, chosen, next, foreign, row, links>>

\* The commit makes the selection and its nodes visible.
Publish(s) ==
  /\ row' = [row EXCEPT ![s] = TRUE]
  /\ links' = [links EXCEPT ![s] = Named(s)]

Commit(s) ==
  /\ spc[s] = "flushed"
  /\ Publish(s)
  /\ spc' = [spc EXCEPT ![s] = "created"]
  /\ UNCHANGED <<table, age, walk, scope, chosen, next, foreign>>

\* A call raises or the process dies: nothing is left, or everything if it was
\* the answer of the commit that got lost.
SelectionFails(s) ==
  /\ spc[s] \in {"checking", "flushed"}
  /\ spc' = [spc EXCEPT ![s] = "failed"]
  /\ \/ UNCHANGED <<row, links>>
     \/ spc[s] = "flushed" /\ Publish(s)
  /\ UNCHANGED <<table, age, walk, scope, chosen, next, foreign>>

-----------------------------------------------------------------------------
WalkStep(w) ==
  \/ \E l \in Lists : StartWalk(w, l)
  \/ CheckList(w) \/ CountRows(w) \/ FetchPage(w) \/ ReadFails(w)

SelectStep(s) ==
  \/ \E c \in Requests : Shown(c) /\ GetVersion(s, c)
  \/ GetNode(s) \/ Flush(s) \/ Commit(s) \/ SelectionFails(s)

ReadsNext ==
  \/ \E d \in Docs : CreateDocument(d)
  \/ CatalogStep
  \/ \E w \in Walkers : WalkStep(w)
  \/ \E s \in Selectors : SelectStep(s)

ReadsSpec == ReadsInit /\ [][ReadsNext]_reads
-----------------------------------------------------------------------------
\* The rows a client got.
Got(w) == {p[2] : p \in seen[w]}

\* Documents are listed newest first, so rows that are inserted in the middle of a
\* walk move others to later pages.  Still a walk that goes on until a page is
\* short meets every document there was when it began (list_paginated).
NoDocumentSkipped ==
  \A w \in Walkers :
    wpc[w] = "finished" /\ list[w].kind = "documents" => known[w] \subseteq Got(w)

\* A walk ends with at least as many rows as its last total counted, although
\* the total and the page are two queries: the total never promises a row
\* that a client waits for in vain (list_for_document, list_for_version).
TotalIsReached ==
  \A w \in Walkers :
    wpc[w] = "finished" => \A i \in 1..total[w] : \E p \in seen[w] : p[1] = i

\* Versions and nodes are listed oldest first and in reading order: whatever is
\* uploaded during a walk, its i-th row is number i, none is missed or repeated,
\* and a walk through nodes ends with the whole tree.
WalkIsExact ==
  \A w \in Walkers : list[w].kind # "documents" =>
    /\ \A p \in seen[w] : p[1] = p[2] /\ \A j \in 1..p[1] : <<j, j>> \in seen[w]
    /\ wpc[w] = "finished" /\ list[w].kind = "nodes" => Got(w) = 1..tree[list[w].of]

\* A stored selection is whole, one or more nodes of one READY version, and what
\* was asked for; no reader meets it without its nodes ("atomically",
\* repositories/selection.py:108).
SelectionsAreWhole ==
  \A s \in Selectors : row[s] =>
    /\ links[s] = Named(s) /\ links[s] # {}
    /\ links[s] \subseteq NodeRows \cap ({scope[s]} \X (1..MaxNodes))

\* What create_selection answers is true of the request, although every node is
\* looked up in a query of its own while trees are being published; and only
\* "created", or a lost answer, leaves a selection behind.
AnswersAreTrue ==
  \A s \in Selectors :
    /\ spc[s] = "created" => row[s]
    /\ row[s] => spc[s] \in {"created", "failed"}
    /\ spc[s] = "unknown" => NoNode \in Named(s)
    /\ spc[s] = "crossed" =>
         NoNode \notin Named(s) /\ \E x \in Named(s) : x[1] # scope[s]
    /\ spc[s] = "conflict" =>
         \E i, j \in DOMAIN chosen[s] : i < j /\ chosen[s][i] = chosen[s][j]
=============================================================================
