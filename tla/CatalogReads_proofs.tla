------------------------- MODULE CatalogReads_proofs -------------------------
(***************************************************************************)
(* Theorems about the clients of the catalog: any number of them, lists of *)
(* any length, pages of any size.                                          *)
(***************************************************************************)
EXTENDS CatalogReads, FiniteSetTheorems, TLAPS

-----------------------------------------------------------------------------
(* Rows in an order have the places 1, 2, 3, ...                           *)

\* Counting the rows up to each, by keys no two of which are equal, numbers them.
LEMMA Ranks ==
  ASSUME NEW R, IsFiniteSet(R), NEW f \in [R -> Int],
         \A x, y \in R : f[x] = f[y] => x = y,
         NEW pos \in [R -> Int],
         \A x \in R : pos[x] = Cardinality({y \in R : f[y] <= f[x]})
  PROVE  /\ Cardinality(R) \in Nat
         /\ \A x \in R : pos[x] \in 1..Cardinality(R)
         /\ \A x, y \in R : pos[x] = pos[y] => x = y
         /\ \A i \in 1..Cardinality(R) : \E x \in R : pos[x] = i
<1> DEFINE Upto(x) == {y \in R : f[y] <= f[x]}
<1>1. Cardinality(R) \in Nat
  BY FS_CardinalityType
<1>2. ASSUME NEW x \in R
      PROVE  /\ IsFiniteSet(Upto(x)) /\ Cardinality(Upto(x)) \in Nat
             /\ Cardinality(Upto(x)) <= Cardinality(R) /\ x \in Upto(x)
             /\ Cardinality(Upto(x)) # 0
  <2>1. Upto(x) \in SUBSET R /\ x \in Upto(x)
    OBVIOUS
  <2>2. IsFiniteSet(Upto(x)) /\ Cardinality(Upto(x)) <= Cardinality(R)
    BY <2>1, FS_Subset
  <2>3. Cardinality(Upto(x)) \in Nat /\ Cardinality(Upto(x)) # 0
    BY <2>1, <2>2, FS_CardinalityType, FS_EmptySet
  <2>4. QED
    BY <2>1, <2>2, <2>3
<1>3. \A x \in R : pos[x] \in 1..Cardinality(R)
  <2>1. ASSUME NEW x \in R
        PROVE  pos[x] \in 1..Cardinality(R)
    <3>1. pos[x] = Cardinality(Upto(x))
      OBVIOUS
    <3> HIDE DEF Upto
    <3>2. QED
      BY <1>1, <1>2, <3>1
  <2>2. QED
    BY <2>1
<1>4. ASSUME NEW x \in R, NEW y \in R, f[x] < f[y]
      PROVE  pos[x] # pos[y]
  <2>1. pos[x] = Cardinality(Upto(x)) /\ pos[y] = Cardinality(Upto(y))
    OBVIOUS
  <2>2. Upto(x) \in SUBSET Upto(y) /\ y \in Upto(y) /\ y \notin Upto(x)
    BY <1>4
  <2>3. Cardinality(Upto(y)) # Cardinality(Upto(x))
    BY <1>2, <2>2, FS_Subset
  <2>4. QED
    BY <2>1, <2>3
<1>5. \A x, y \in R : pos[x] = pos[y] => x = y
  <2>1. ASSUME NEW x \in R, NEW y \in R, x # y
        PROVE  pos[x] # pos[y]
    <3>1. f[x] < f[y] \/ f[y] < f[x]
      BY <2>1
    <3>2. QED
      BY <1>4, <3>1
  <2>2. QED
    BY <2>1
<1>6. pos \in Injection(R, 1..Cardinality(R))
  BY <1>3, <1>5 DEF Injection, IsInjective
<1>7. /\ IsFiniteSet(1..Cardinality(R))
      /\ Cardinality(1..Cardinality(R)) = Cardinality(R)
  BY <1>1, FS_Interval
<1>8. pos \in Surjection(R, 1..Cardinality(R))
  BY <1>6, <1>7, FS_Injection
<1>9. QED
  BY <1>1, <1>3, <1>5, <1>8 DEF Surjection

\* Numbers from 1 are their own places.
LEMMA NumbersInPlace ==
  ASSUME NEW n \in Nat, NEW x \in 1..n
  PROVE  Cardinality({y \in 1..n : y <= x}) = x
<1>1. {y \in 1..n : y <= x} = 1..x
  OBVIOUS
<1>2. 1 \in Int /\ x \in Int /\ ~ (1 > x) /\ x - 1 + 1 = x
  OBVIOUS
<1>3. Cardinality(1..x) = x
  BY <1>2, FS_Interval
<1>4. QED
  BY <1>1, <1>3

\* What a list has, now.
LEMMA ListRows ==
  ASSUME ReadsTypeOK, NEW l \in Lists
  PROVE  /\ l.kind = "documents" => Rows(l) = documents
         /\ l.kind = "versions" => /\ l.of \in Docs /\ Len(catalog[l.of]) \in Nat
                                   /\ Rows(l) = 1..Len(catalog[l.of])
         /\ l.kind = "nodes" =>
              /\ l.of \in Ids
              /\ Rows(l) = IF outcome[l.of] = "ready" THEN 1..tree[l.of] ELSE {}
         /\ l.kind # "documents" => \E n \in Nat : Rows(l) = 1..n
         /\ l.kind \in {"documents", "versions", "nodes"}
<1>1. l.kind = "documents" => Rows(l) = documents
  BY DEF Rows
<1>2. CASE l.kind = "versions"
  <2>1. l.of \in Docs
    BY <1>2 DEF Lists
  <2>2. catalog[l.of] \in Seq(Ids)
    BY <2>1 DEF ReadsTypeOK
  <2>3. Rows(l) = DOMAIN catalog[l.of]
    BY <1>2 DEF Rows
  <2>4. QED
    BY <1>2, <2>1, <2>2, <2>3
<1>3. CASE l.kind = "nodes"
  <2>1. l.of \in Ids
    BY <1>3 DEF Lists
  <2>2. tree[l.of] \in 0..MaxNodes /\ MaxNodes \in Nat
    BY <2>1, ReadsAssumption DEF ReadsTypeOK
  <2>3. Rows(l) = {n \in 1..MaxNodes : <<l.of, n>> \in NodeRows}
    BY <1>3 DEF Rows
  <2>4. \A n \in 1..MaxNodes :
          <<l.of, n>> \in NodeRows <=> outcome[l.of] = "ready" /\ n <= tree[l.of]
    BY <2>1 DEF NodeRows, Nodes
  <2>5. Rows(l) = IF outcome[l.of] = "ready" THEN 1..tree[l.of] ELSE {}
    BY <2>2, <2>3, <2>4
  <2>6. {} = 1..0
    OBVIOUS
  <2>7. \E n \in Nat : Rows(l) = 1..n
    BY <2>2, <2>5, <2>6
  <2>8. QED
    BY <1>3, <2>1, <2>5, <2>7
<1>4. l.kind \in {"documents", "versions", "nodes"}
  BY DEF Lists
<1>5. QED
  BY <1>1, <1>2, <1>3, <1>4

\* No two documents have the same place in the order.
AgesDiffer == \A d, e \in Docs : age[d] = age[e] => d = e

LEMMA Places ==
  ASSUME ReadsTypeOK, AgesDiffer, NEW l \in Lists
  PROVE  /\ Cardinality(Rows(l)) \in Nat /\ IsFiniteSet(Rows(l))
         /\ \A x \in Rows(l) : Place(l, x) \in 1..Cardinality(Rows(l))
         /\ \A x, y \in Rows(l) : Place(l, x) = Place(l, y) => x = y
         /\ \A i \in 1..Cardinality(Rows(l)) : \E x \in Rows(l) : Place(l, x) = i
         /\ l.kind # "documents" => \A x \in Rows(l) : Place(l, x) = x /\ x \in Nat
<1>1. CASE l.kind = "documents"
  <2> DEFINE R == documents
             f == [x \in R |-> age[x]]
             pos == [x \in R |-> Place(l, x)]
  <2>1. Rows(l) = R /\ R \subseteq Docs /\ age \in [Docs -> Nat]
    BY <1>1, ListRows DEF ReadsTypeOK
  <2>2. IsFiniteSet(R)
    BY <2>1, ReadsAssumption, FS_Subset
  <2>3. f \in [R -> Int] /\ \A x, y \in R : f[x] = f[y] => x = y
    BY <2>1 DEF AgesDiffer
  <2>4. \A x \in R : /\ pos[x] = Place(l, x)
                     /\ Place(l, x) = Cardinality({y \in R : f[y] <= f[x]})
    <3>1. ASSUME NEW x \in R
          PROVE  Place(l, x) = Cardinality({y \in R : f[y] <= f[x]})
      <4>1. {y \in Rows(l) : Before(l, y, x)} = {y \in R : f[y] <= f[x]}
        BY <1>1, <2>1 DEF Before
      <4>2. QED
        BY <4>1 DEF Place
    <3>2. QED
      BY <3>1
  <2>5. pos \in [R -> Int]
    <3>1. ASSUME NEW x \in R PROVE Place(l, x) \in Int
      <4> DEFINE S == {y \in R : f[y] <= f[x]}
      <4>1. S \in SUBSET R /\ Place(l, x) = Cardinality(S)
        BY <2>4
      <4> HIDE DEF S
      <4>2. Cardinality(S) \in Nat
        BY <2>2, <4>1, FS_Subset, FS_CardinalityType
      <4>3. QED
        BY <4>1, <4>2
    <3>2. QED
      BY <3>1
  <2> HIDE DEF f, pos
  <2>6. /\ Cardinality(R) \in Nat
        /\ \A x \in R : pos[x] \in 1..Cardinality(R)
        /\ \A x, y \in R : pos[x] = pos[y] => x = y
        /\ \A i \in 1..Cardinality(R) : \E x \in R : pos[x] = i
    BY <2>2, <2>3, <2>4, <2>5, Ranks
  <2>7. /\ \A x \in R : Place(l, x) \in 1..Cardinality(R)
        /\ \A x, y \in R : Place(l, x) = Place(l, y) => x = y
        /\ \A i \in 1..Cardinality(R) : \E x \in R : Place(l, x) = i
    <3>1. \A x \in R : Place(l, x) = pos[x]
      BY <2>4
    <3>2. QED
      BY <2>6, <3>1
  <2>8. QED
    BY <1>1, <2>1, <2>2, <2>6, <2>7
<1>2. CASE l.kind # "documents"
  <2>1. PICK n \in Nat : Rows(l) = 1..n
    BY <1>2, ListRows
  <2>2. IsFiniteSet(1..n) /\ Cardinality(1..n) = n
    BY FS_Interval
  <2>3. ASSUME NEW x \in 1..n PROVE Place(l, x) = x
    <3>1. {y \in Rows(l) : Before(l, y, x)} = {y \in 1..n : y <= x}
      BY <1>2, <2>1 DEF Before
    <3>2. QED
      BY <2>3, <3>1, NumbersInPlace DEF Place
  <2>4. QED
    BY <1>2, <2>1, <2>2, <2>3
<1>3. QED
  BY <1>1, <1>2

\* The page a walk gets next.
PageOf(w) == {<<Place(list[w], x), x>> : x \in
                {y \in Rows(list[w]) :
                   Place(list[w], y) \in (offset[w] + 1)..(offset[w] + Limit)}}

\* A page is full exactly if the list reaches so far, and then has every place.
LEMMA Pages ==
  ASSUME ReadsTypeOK, AgesDiffer, NEW w \in Walkers
  PROVE  LET from == offset[w] + 1
             to == offset[w] + Limit
         IN  /\ Cardinality(PageOf(w)) = Limit => Cardinality(Rows(list[w])) >= to
             /\ \A i \in from..to : i <= Cardinality(Rows(list[w])) =>
                  \E p \in PageOf(w) : p[1] = i
             /\ Cardinality(PageOf(w)) # Limit => Cardinality(Rows(list[w])) < to
<1> DEFINE R == Rows(list[w])
           n == Cardinality(R)
           from == offset[w] + 1
           to == offset[w] + Limit
           P == PageOf(w)
           f == [p \in P |-> p[1]]
<1>1. /\ list[w] \in Lists /\ offset[w] \in Nat /\ Limit \in Nat /\ Limit # 0
  BY ReadsAssumption DEF ReadsTypeOK
<1>2. /\ n \in Nat
      /\ \A x \in R : Place(list[w], x) \in 1..n
      /\ \A x, y \in R : Place(list[w], x) = Place(list[w], y) => x = y
      /\ \A i \in 1..n : \E x \in R : Place(list[w], x) = i
  BY <1>1, Places
<1>3. \A p \in P : \E x \in R : p = <<Place(list[w], x), x>> /\ p[1] \in from..to
  BY DEF PageOf
<1>4. f \in [P -> from..to]
  BY <1>3
<1>5. \A p, q \in P : f[p] = f[q] => p = q
  BY <1>2, <1>3
<1>6. f \in Injection(P, from..to)
  BY <1>4, <1>5 DEF Injection, IsInjective
<1>7. /\ from \in Int /\ to \in Int /\ ~ (from > to) /\ to - from + 1 = Limit
  BY <1>1
<1>8. IsFiniteSet(from..to) /\ Cardinality(from..to) = Limit
  BY <1>7, FS_Interval
<1>9. Cardinality(P) = Limit <=> f \in Surjection(P, from..to)
  BY <1>6, <1>8, FS_Injection
<1>10. \A i \in from..to : i <= n => \E p \in P : p[1] = i
  <2>1. ASSUME NEW i \in from..to, i <= n
        PROVE  \E p \in P : p[1] = i
    <3>1. i \in 1..n
      BY <1>1, <1>2, <2>1
    <3>2. PICK x \in R : Place(list[w], x) = i
      BY <1>2, <3>1
    <3>3. <<Place(list[w], x), x>> \in P
      BY <2>1, <3>2 DEF PageOf
    <3>4. QED
      BY <3>2, <3>3
  <2>2. QED
    BY <2>1
<1>11. Cardinality(P) = Limit => n >= to
  <2>1. SUFFICES ASSUME Cardinality(P) = Limit
                 PROVE  n >= to
    OBVIOUS
  <2>2. to \in from..to
    BY <1>1, <1>7
  <2>3. f \in Surjection(P, from..to)
    BY <1>9, <2>1
  <2>4. PICK p \in P : f[p] = to
    BY <2>2, <2>3 DEF Surjection
  <2>5. PICK x \in R : p = <<Place(list[w], x), x>>
    BY <1>3
  <2>6. to \in 1..n
    BY <1>2, <2>4, <2>5
  <2>7. QED
    BY <1>2, <2>6
<1>12. Cardinality(P) # Limit => n < to
  <2>1. SUFFICES ASSUME n >= to
                 PROVE  Cardinality(P) = Limit
    BY <1>1, <1>2
  <2>2. \A i \in from..to : \E p \in P : f[p] = i
    BY <1>2, <1>7, <1>10, <2>1
  <2>3. f \in Surjection(P, from..to)
    BY <1>4, <2>2 DEF Surjection
  <2>4. QED
    BY <1>9, <2>3
<1>13. QED
  BY <1>10, <1>11, <1>12

-----------------------------------------------------------------------------
(* The inductive invariant.                                                *)

\* A walk has a row for every place below its offset.  The documents it has yet to
\* see lie at or above it, where rows that come in between only push them further.
WalkOK(w) ==
  /\ wpc[w] = "idle" => offset[w] = 0 /\ seen[w] = {} /\ known[w] = {}
  /\ \A p \in seen[w] : p[1] \in Nat /\ p[2] \in Rows(list[w])
  /\ \A i \in 1..offset[w] : \E p \in seen[w] : p[1] = i
  /\ wpc[w] = "counted" => total[w] <= Cardinality(Rows(list[w]))
  /\ wpc[w] = "finished" => \A i \in 1..total[w] : \E p \in seen[w] : p[1] = i
  /\ wpc[w] \in {"checked", "counted", "finished"} /\ list[w].kind = "nodes" =>
       outcome[list[w].of] = "ready"
  /\ list[w].kind # "documents" =>
       /\ \A p \in seen[w] : p[1] = p[2] /\ \A j \in 1..p[1] : <<j, j>> \in seen[w]
       /\ wpc[w] = "finished" /\ list[w].kind = "nodes" => Rows(list[w]) \subseteq Got(w)
  /\ list[w].kind = "documents" =>
       /\ known[w] \subseteq documents
       /\ \A d \in known[w] : d \in Got(w) \/ Place(list[w], d) > offset[w]
       /\ wpc[w] = "finished" => known[w] \subseteq Got(w)

\* What the request has looked up stays true: nodes of READY versions stay.
SelectOK(s) ==
  /\ spc[s] = "idle" => next[s] = 1 /\ ~foreign[s] /\ ~row[s]
  /\ \A i \in 1..Len(chosen[s]) : chosen[s][i] \in NodeRows \cup {NoNode}
  /\ spc[s] \in {"checking", "flushed"} \/ row[s] =>
       /\ outcome[scope[s]] = "ready" /\ chosen[s] # <<>>
       /\ next[s] <= Len(chosen[s]) + 1
       /\ \A i \in 1..(next[s] - 1) :
            chosen[s][i] \in NodeRows /\ (chosen[s][i][1] # scope[s] => foreign[s])
       /\ foreign[s] => \E i \in 1..Len(chosen[s]) :
            chosen[s][i] \in NodeRows /\ chosen[s][i][1] # scope[s]
  /\ spc[s] = "flushed" \/ row[s] => next[s] = Len(chosen[s]) + 1 /\ ~foreign[s]
  /\ row[s] => links[s] = Named(s)
  /\ spc[s] = "created" => row[s]
  /\ row[s] => spc[s] \in {"created", "failed"}
  /\ spc[s] = "unknown" => NoNode \in Named(s)
  /\ spc[s] = "crossed" => NoNode \notin Named(s) /\ \E x \in Named(s) : x[1] # scope[s]
  /\ spc[s] = "conflict" =>
       \E i, j \in DOMAIN chosen[s] : i < j /\ chosen[s][i] = chosen[s][j]

ReadsIInv == /\ ReadsTypeOK /\ AgesDiffer
             /\ \A w \in Walkers : WalkOK(w)
             /\ \A s \in Selectors : SelectOK(s)

-----------------------------------------------------------------------------
(* Types.                                                                  *)

\* A request for nodes is a sequence of them.
LEMMA RequestShape ==
  ASSUME NEW c \in Requests
  PROVE  /\ c \in Seq(Nodes \cup {NoNode}) /\ Len(c) \in Nat /\ DOMAIN c = 1..Len(c)
         /\ \A i \in 1..Len(c) : c[i] \in Nodes \cup {NoNode}
<1>1. PICK n \in 0..MaxChosen : c \in [1..n -> Nodes \cup {NoNode}]
  BY DEF Requests
<1>2. n \in Nat
  BY <1>1, ReadsAssumption
<1>3. c \in Seq(Nodes \cup {NoNode})
  BY <1>1, <1>2
<1>4. Len(c) = n
  BY <1>1, <1>2, <1>3
<1>5. QED
  BY <1>1, <1>2, <1>3, <1>4

LEMMA InitType == ReadsInit => ReadsTypeOK /\ AgesDiffer
<1> SUFFICES ASSUME ReadsInit PROVE ReadsTypeOK /\ AgesDiffer
  OBVIOUS
<1>1. <<>> \in Requests
  <2>1. <<>> \in [1..0 -> Nodes \cup {NoNode}]
    OBVIOUS
  <2>2. 0 \in 0..MaxChosen
    BY ReadsAssumption
  <2>3. QED
    BY <2>1, <2>2 DEF Requests
<1>2. [kind |-> "documents", of |-> 0] \in Lists
  BY DEF Lists
<1>3. Cardinality(Docs) \in Nat
  BY ReadsAssumption, FS_CardinalityType
<1>4. age \in [Docs -> Nat] /\ AgesDiffer
  BY <1>3 DEF ReadsInit, AgesDiffer
<1>5. /\ catalog \in [Docs -> Seq(Ids)]
      /\ outcome \in [Ids -> {"none", "processing", "ready", "failed"}]
      /\ tree \in [Ids -> 0..MaxNodes]
  BY ReadsAssumption DEF ReadsInit, Init
<1>6. QED
  BY <1>1, <1>2, <1>4, <1>5 DEF ReadsInit, ReadsTypeOK, SelectPc

LEMMA CatalogType ==
  ASSUME ReadsTypeOK, Next
  PROVE  /\ catalog' \in [Docs -> Seq(Ids)]
         /\ outcome' \in [Ids -> {"none", "processing", "ready", "failed"}]
         /\ tree' \in [Ids -> 0..MaxNodes]
<1>2. ASSUME NEW v \in Ids, NEW d \in Docs, AddVersion(d, v)
      PROVE  /\ catalog' \in [Docs -> Seq(Ids)]
             /\ outcome' \in [Ids -> {"none", "processing", "ready", "failed"}]
             /\ tree' \in [Ids -> 0..MaxNodes]
  <2>1. catalog[d] \in Seq(Ids)
    BY DEF ReadsTypeOK
  <2>2. Append(catalog[d], v) \in Seq(Ids)
    BY <2>1
  <2>3. QED
    BY <1>2, <2>2 DEF AddVersion, ReadsTypeOK
<1>3. ASSUME NEW v \in Ids, NEW n \in 0..MaxNodes, Resolve(v, n)
      PROVE  /\ catalog' \in [Docs -> Seq(Ids)]
             /\ outcome' \in [Ids -> {"none", "processing", "ready", "failed"}]
             /\ tree' \in [Ids -> 0..MaxNodes]
  BY <1>3 DEF Resolve, ReadsTypeOK
<1>4. ASSUME NEW v \in Ids, Reject(v)
      PROVE  /\ catalog' \in [Docs -> Seq(Ids)]
             /\ outcome' \in [Ids -> {"none", "processing", "ready", "failed"}]
             /\ tree' \in [Ids -> 0..MaxNodes]
  BY <1>4 DEF Reject, ReadsTypeOK
<1>5. QED
  BY <1>2, <1>3, <1>4 DEF Next

LEMMA TypeStep ==
  ASSUME ReadsTypeOK, AgesDiffer, ReadsNext
  PROVE  ReadsTypeOK' /\ AgesDiffer'
<1>1. ASSUME NEW d \in Docs, CreateDocument(d)
      PROVE  ReadsTypeOK' /\ AgesDiffer'
  BY <1>1 DEF CreateDocument, ReadsTypeOK, AgesDiffer, vars, walk, selecting
<1>2. CASE CatalogStep
  BY <1>2, CatalogType DEF CatalogStep, ReadsTypeOK, AgesDiffer, walk, selecting
<1>3. ASSUME NEW w \in Walkers, NEW l \in Lists, StartWalk(w, l)
      PROVE  ReadsTypeOK' /\ AgesDiffer'
  BY <1>3 DEF StartWalk, ReadsTypeOK, AgesDiffer, table, selecting
<1>4. ASSUME NEW w \in Walkers, CheckList(w) \/ ReadFails(w)
      PROVE  ReadsTypeOK' /\ AgesDiffer'
  BY <1>4 DEF CheckList, ReadFails, ReadsTypeOK, AgesDiffer, table, selecting
<1>5. ASSUME NEW w \in Walkers, CountRows(w)
      PROVE  ReadsTypeOK' /\ AgesDiffer'
  <2>1. Cardinality(Rows(list[w])) \in Nat
    BY Places DEF ReadsTypeOK
  <2>2. QED
    BY <1>5, <2>1 DEF CountRows, ReadsTypeOK, AgesDiffer, table, selecting
<1>6. ASSUME NEW w \in Walkers, FetchPage(w)
      PROVE  ReadsTypeOK' /\ AgesDiffer'
  <2>1. Limit \in Nat
    BY ReadsAssumption
  <2>2. TakePage(w, PageOf(w))
    BY <1>6 DEF FetchPage, PageOf
  <2>3. /\ offset' \in [Walkers -> Nat]
        /\ wpc' \in [Walkers -> {"idle", "asking", "checked", "counted", "finished", "refused"}]
    <3>1. CASE Cardinality(PageOf(w)) = Limit
      <4>1. offset' = [offset EXCEPT ![w] = offset[w] + Limit] /\ wpc' = [wpc EXCEPT ![w] = "asking"]
        BY <2>2, <3>1 DEF TakePage
      <4>2. QED
        BY <2>1, <4>1 DEF ReadsTypeOK
    <3>2. CASE Cardinality(PageOf(w)) # Limit
      <4>1. offset' = offset /\ wpc' = [wpc EXCEPT ![w] = "finished"]
        BY <2>2, <3>2 DEF TakePage
      <4>2. QED
        BY <4>1 DEF ReadsTypeOK
    <3>3. QED
      BY <3>1, <3>2
  <2>4. seen' \in [Walkers -> SUBSET (Nat \X (Docs \cup Nat))]
    <3>1. list[w] \in Lists
      BY DEF ReadsTypeOK
    <3>2. Rows(list[w]) \subseteq Docs \cup Nat
      <4>1. CASE list[w].kind = "documents"
        BY <3>1, <4>1, ListRows DEF ReadsTypeOK
      <4>2. CASE list[w].kind # "documents"
        BY <3>1, <4>2, Places
      <4>3. QED
        BY <4>1, <4>2
    <3>3. \A x \in Rows(list[w]) : Place(list[w], x) \in Nat
      BY <3>1, Places
    <3>4. PageOf(w) \subseteq Nat \X (Docs \cup Nat)
      BY <3>2, <3>3 DEF PageOf
    <3>5. seen' = [seen EXCEPT ![w] = seen[w] \cup PageOf(w)]
      BY <2>2 DEF TakePage
    <3>6. QED
      BY <3>4, <3>5 DEF ReadsTypeOK
  <2>5. QED
    BY <1>6, <2>3, <2>4 DEF FetchPage, ReadsTypeOK, AgesDiffer, table, selecting
<1>7. ASSUME NEW s \in Selectors, NEW c \in Requests, GetVersion(s, c)
      PROVE  ReadsTypeOK' /\ AgesDiffer'
  BY <1>7 DEF GetVersion, ReadsTypeOK, SelectPc, AgesDiffer, table, walk
<1>8. ASSUME NEW s \in Selectors, GetNode(s) \/ Flush(s)
      PROVE  ReadsTypeOK' /\ AgesDiffer'
  <2>1. /\ spc' \in [Selectors -> SelectPc] /\ next' \in [Selectors -> Nat \ {0}]
        /\ foreign' \in [Selectors -> BOOLEAN]
    <3>1. CASE GetNode(s)
      <4>1. next[s] + 1 \in Nat \ {0}
        BY DEF ReadsTypeOK
      <4> DEFINE b == foreign[s] \/ chosen[s][next[s]][1] # scope[s]
      <4>2. b \in BOOLEAN
        OBVIOUS
      <4>3. \/ foreign' = [foreign EXCEPT ![s] = b] /\ next' = [next EXCEPT ![s] = next[s] + 1]
               /\ spc' = spc
            \/ foreign' = foreign /\ next' = next /\ spc' = [spc EXCEPT ![s] = "unknown"]
        BY <3>1 DEF GetNode
      <4>4. /\ spc \in [Selectors -> SelectPc] /\ next \in [Selectors -> Nat \ {0}]
            /\ foreign \in [Selectors -> BOOLEAN]
        BY DEF ReadsTypeOK
      <4> HIDE DEF b
      <4>5. QED
        BY <4>1, <4>2, <4>3, <4>4 DEF SelectPc
    <3>2. CASE Flush(s)
      BY <3>2 DEF Flush, ReadsTypeOK, SelectPc
    <3>3. QED
      BY <1>8, <3>1, <3>2
  <2>2. QED
    BY <1>8, <2>1 DEF GetNode, Flush, ReadsTypeOK, AgesDiffer, table, walk
<1>9. ASSUME NEW s \in Selectors, Commit(s) \/ SelectionFails(s)
      PROVE  ReadsTypeOK' /\ AgesDiffer'
  <2>1. chosen[s] \in Requests
    BY DEF ReadsTypeOK
  <2>2. Named(s) \in SUBSET (Nodes \cup {NoNode})
    BY <2>1, RequestShape DEF Named
  <2>3. /\ spc' \in [Selectors -> SelectPc] /\ row' \in [Selectors -> BOOLEAN]
        /\ links' \in [Selectors -> SUBSET (Nodes \cup {NoNode})]
    BY <1>9, <2>2 DEF Commit, SelectionFails, Publish, ReadsTypeOK, SelectPc
  <2>4. QED
    BY <1>9, <2>3 DEF Commit, SelectionFails, ReadsTypeOK, AgesDiffer, table, walk
<1>10. QED
  BY <1>1, <1>2, <1>3, <1>4, <1>5, <1>6, <1>7, <1>8, <1>9
  DEF ReadsNext, WalkStep, SelectStep

-----------------------------------------------------------------------------
(* Tables only grow, and what is READY stays.                              *)

LEMMA TablesGrow ==
  ASSUME ReadsTypeOK, CatalogStep \/ \E d \in Docs : CreateDocument(d)
  PROVE  /\ documents \subseteq documents'
         /\ \A d \in Docs : Len(catalog[d]) <= Len(catalog'[d])
         /\ \A v \in Ids : outcome[v] = "ready" => outcome'[v] = "ready" /\ tree'[v] = tree[v]
         /\ age' = age
<1>1. \A d \in Docs : catalog[d] \in Seq(Ids) /\ Len(catalog[d]) \in Nat
  <2>1. ASSUME NEW d \in Docs PROVE catalog[d] \in Seq(Ids) /\ Len(catalog[d]) \in Nat
    <3>1. catalog[d] \in Seq(Ids)
      BY DEF ReadsTypeOK
    <3>2. QED
      BY <3>1
  <2>2. QED
    BY <2>1
<1>2. ASSUME NEW v \in Ids, NEW d \in Docs, AddVersion(d, v)
      PROVE  /\ \A e \in Docs : Len(catalog[e]) <= Len(catalog'[e])
             /\ \A x \in Ids : outcome[x] = "ready" =>
                  outcome'[x] = "ready" /\ tree'[x] = tree[x]
  <2>1. Append(catalog[d], v) \in Seq(Ids) /\ Len(Append(catalog[d], v)) = Len(catalog[d]) + 1
    BY <1>1
  <2>2. \A e \in Docs : catalog'[e] = IF e = d THEN Append(catalog[d], v) ELSE catalog[e]
    BY <1>2 DEF AddVersion, ReadsTypeOK
  <2>3. \A e \in Docs : Len(catalog[e]) <= Len(catalog'[e])
    <3>1. ASSUME NEW e \in Docs PROVE Len(catalog[e]) <= Len(catalog'[e])
      <4>1. CASE e = d
        <5>1. Len(catalog'[d]) = Len(catalog[d]) + 1
          BY <2>1, <2>2
        <5>2. QED
          BY <1>1, <4>1, <5>1
      <4>2. CASE e # d
        BY <1>1, <2>2, <4>2
      <4>3. QED
        BY <4>1, <4>2
    <3>2. QED
      BY <3>1
  <2>4. QED
    BY <1>2, <2>3 DEF AddVersion, ReadsTypeOK
<1>3. ASSUME NEW v \in Ids, NEW n \in 0..MaxNodes, Resolve(v, n) \/ Reject(v)
      PROVE  /\ \A e \in Docs : Len(catalog[e]) <= Len(catalog'[e])
             /\ \A x \in Ids : outcome[x] = "ready" =>
                  outcome'[x] = "ready" /\ tree'[x] = tree[x]
  BY <1>1, <1>3 DEF Resolve, Reject, ReadsTypeOK
<1>4. 0 \in 0..MaxNodes
  BY ReadsAssumption
<1>5. CASE CatalogStep
  BY <1>2, <1>3, <1>4, <1>5 DEF CatalogStep, Next
<1>6. ASSUME NEW d \in Docs, CreateDocument(d)
      PROVE  /\ documents \subseteq documents' /\ age' = age
             /\ UNCHANGED <<catalog, outcome, tree>>
  BY <1>6 DEF CreateDocument, vars
<1>7. QED
  BY <1>1, <1>5, <1>6 DEF CatalogStep

LEMMA FiniteRows ==
  ReadsTypeOK /\ AgesDiffer =>
    \A l \in Lists : IsFiniteSet(Rows(l)) /\ Cardinality(Rows(l)) \in Nat
BY Places

LEMMA FiniteRowsNext ==
  (ReadsTypeOK /\ AgesDiffer =>
     \A l \in Lists : IsFiniteSet(Rows(l)) /\ Cardinality(Rows(l)) \in Nat)'
BY FiniteRows, PTL

\* So lists grow, and a document's place only gets larger.
LEMMA ListsGrow ==
  ASSUME ReadsTypeOK, ReadsTypeOK', AgesDiffer, AgesDiffer',
         CatalogStep \/ \E d \in Docs : CreateDocument(d), NEW l \in Lists
  PROVE  /\ Rows(l) \subseteq Rows(l)'
         /\ Cardinality(Rows(l)) \in Nat /\ Cardinality(Rows(l)') \in Nat
         /\ Cardinality(Rows(l)) <= Cardinality(Rows(l)')
         /\ l.kind = "documents" => \A d \in documents :
              Place(l, d) \in Nat /\ Place(l, d)' \in Nat /\ Place(l, d) <= Place(l, d)'
         /\ l.kind = "nodes" /\ outcome[l.of] = "ready" => Rows(l)' = Rows(l)
<1>1. Rows(l) \subseteq Rows(l)'
  <2>1. CASE l.kind = "documents"
    BY <2>1, TablesGrow DEF Rows
  <2>2. CASE l.kind = "versions"
    <3>1. /\ l.of \in Docs /\ Rows(l) = 1..Len(catalog[l.of])
          /\ Len(catalog[l.of]) \in Nat
      BY <2>2, ListRows
    <3>2. /\ catalog'[l.of] \in Seq(Ids) /\ Rows(l)' = DOMAIN catalog'[l.of]
      BY <2>2, <3>1 DEF Rows, ReadsTypeOK
    <3>3. Len(catalog'[l.of]) \in Nat /\ Rows(l)' = 1..Len(catalog'[l.of])
      BY <3>2
    <3>4. QED
      BY <3>1, <3>3, TablesGrow
  <2>3. CASE l.kind = "nodes"
    <3>1. l.of \in Ids
      BY <2>3, ListRows
    <3>2. NodeRows \subseteq NodeRows'
      <4>1. ASSUME NEW x \in Nodes, x \in NodeRows PROVE x \in NodeRows'
        <5>1. x[1] \in Ids /\ outcome[x[1]] = "ready" /\ x[2] <= tree[x[1]]
          BY <4>1 DEF Nodes, NodeRows
        <5>2. QED
          BY <4>1, <5>1, TablesGrow DEF NodeRows
      <4>2. QED
        BY <4>1 DEF NodeRows
    <3>3. QED
      BY <2>3, <3>2 DEF Rows
  <2>4. QED
    BY <2>1, <2>2, <2>3, ListRows
<1>2. /\ IsFiniteSet(Rows(l)) /\ Cardinality(Rows(l)) \in Nat
  BY Places
<1>3. IsFiniteSet(Rows(l)') /\ Cardinality(Rows(l)') \in Nat
  BY FiniteRowsNext
<1>4. Cardinality(Rows(l)) <= Cardinality(Rows(l)')
  BY <1>1, <1>3, FS_Subset
<1>5. ASSUME l.kind = "documents", NEW d \in documents
      PROVE  Place(l, d) \in Nat /\ Place(l, d)' \in Nat /\ Place(l, d) <= Place(l, d)'
  <2> DEFINE S == {y \in Rows(l) : Before(l, y, d)}
             T == {y \in Rows(l)' : Before(l, y, d)'}
  <2>1. Place(l, d) = Cardinality(S) /\ Place(l, d)' = Cardinality(T)
    BY DEF Place
  <2>2. S \in SUBSET T
    BY <1>1, <1>5, TablesGrow DEF Before
  <2>3. T \in SUBSET Rows(l)' /\ S \in SUBSET Rows(l)
    OBVIOUS
  <2> HIDE DEF S, T
  <2>4. /\ IsFiniteSet(T) /\ IsFiniteSet(S) /\ Cardinality(S) <= Cardinality(T)
    BY <1>2, <1>3, <2>2, <2>3, FS_Subset
  <2>5. QED
    BY <2>1, <2>4, FS_CardinalityType
<1>6. l.kind = "nodes" /\ outcome[l.of] = "ready" => Rows(l)' = Rows(l)
  <2>1. SUFFICES ASSUME l.kind = "nodes", outcome[l.of] = "ready"
                 PROVE  Rows(l)' = Rows(l)
    OBVIOUS
  <2>2. l.of \in Ids /\ outcome'[l.of] = "ready" /\ tree'[l.of] = tree[l.of]
    BY <2>1, ListRows, TablesGrow
  <2>3. \A n \in 1..MaxNodes : (<<l.of, n>> \in NodeRows)' <=> <<l.of, n>> \in NodeRows
    BY <2>1, <2>2 DEF NodeRows, Nodes
  <2>4. QED
    BY <2>1, <2>3 DEF Rows
<1>7. QED
  BY <1>1, <1>2, <1>3, <1>4, <1>5, <1>6

LEMMA InitInv == ReadsInit => ReadsIInv
<1> SUFFICES ASSUME ReadsInit PROVE ReadsIInv
  OBVIOUS
<1>1. ReadsTypeOK /\ AgesDiffer
  BY InitType
<1>2. ASSUME NEW w \in Walkers PROVE WalkOK(w)
  BY DEF ReadsInit, WalkOK
<1>3. ASSUME NEW s \in Selectors PROVE SelectOK(s)
  <2>1. chosen[s] = <<>> /\ Len(chosen[s]) = 0
    BY DEF ReadsInit
  <2>2. QED
    BY <2>1 DEF ReadsInit, SelectOK
<1>4. QED
  BY <1>1, <1>2, <1>3 DEF ReadsIInv

-----------------------------------------------------------------------------
(* Walks.                                                                  *)

\* Rows that come in between do not harm a walk.
LEMMA WalkTables ==
  ASSUME ReadsTypeOK, ReadsTypeOK', AgesDiffer, AgesDiffer',
         CatalogStep \/ \E d \in Docs : CreateDocument(d),
         NEW w \in Walkers, WalkOK(w)
  PROVE  WalkOK(w)'
<1> DEFINE l == list[w]
<1>1. UNCHANGED <<wpc, list, offset, total, seen, known>> /\ l \in Lists
  BY DEF CatalogStep, CreateDocument, walk, ReadsTypeOK
<1>2. PICK m \in Lists : m = list[w] /\ m = list'[w]
  BY <1>1
<1>3. /\ Rows(m) \subseteq Rows(m)'
      /\ Cardinality(Rows(m)) \in Nat /\ Cardinality(Rows(m)') \in Nat
      /\ Cardinality(Rows(m)) <= Cardinality(Rows(m)')
      /\ m.kind = "documents" => \A d \in documents :
            Place(m, d) \in Nat /\ Place(m, d)' \in Nat /\ Place(m, d) <= Place(m, d)'
      /\ m.kind = "nodes" /\ outcome[m.of] = "ready" => Rows(m)' = Rows(m)
  BY ListsGrow
<1>4. /\ Rows(list[w])' = Rows(m)'
      /\ \A d \in documents : Place(list[w], d)' = Place(m, d)'
  BY <1>2
<1>5. documents \subseteq documents' /\ (m.kind = "nodes" => m.of \in Ids)
  BY ListRows, TablesGrow
<1>6. outcome[m.of] = "ready" /\ m.kind = "nodes" => outcome'[m.of] = "ready"
  BY <1>5, TablesGrow
<1>7. offset[w] \in Nat /\ total[w] \in Nat
  BY DEF ReadsTypeOK
<1>8. /\ \A p \in seen[w] : p[1] \in Nat /\ p[2] \in Rows(m)'
      /\ wpc[w] = "counted" => total[w] <= Cardinality(Rows(m)')
  BY <1>2, <1>3, <1>7 DEF WalkOK
<1>9. wpc[w] = "finished" /\ m.kind = "nodes" => Rows(m)' \subseteq Got(w)
  BY <1>2, <1>3 DEF WalkOK
<1>10. m.kind = "documents" =>
         \A d \in known[w] : d \in Got(w) \/ Place(m, d)' > offset[w]
  <2>1. ASSUME m.kind = "documents", NEW d \in known[w], d \notin Got(w)
        PROVE  Place(m, d)' > offset[w]
    <3>1. d \in documents /\ Place(m, d) > offset[w]
      BY <1>2, <2>1 DEF WalkOK
    <3>2. Place(m, d) \in Nat /\ Place(m, d)' \in Nat /\ Place(m, d) <= Place(m, d)'
      BY <1>3, <2>1, <3>1
    <3>3. QED
      BY <1>7, <3>1, <3>2
  <2>2. QED
    BY <2>1
<1>11. Got(w)' = Got(w)
  BY <1>1 DEF Got
<1>12. m.kind = "documents" => known[w] \subseteq documents
  BY <1>2 DEF WalkOK
<1>13. m.kind = "documents" =>
         \A d \in known[w] : d \in Got(w) \/ Place(list[w], d)' > offset[w]
  BY <1>4, <1>10, <1>12
<1>14. /\ wpc[w] = "idle" => offset[w] = 0 /\ seen[w] = {} /\ known[w] = {}
       /\ \A i \in 1..offset[w] : \E p \in seen[w] : p[1] = i
       /\ wpc[w] = "finished" => \A i \in 1..total[w] : \E p \in seen[w] : p[1] = i
       /\ wpc[w] \in {"checked", "counted", "finished"} /\ m.kind = "nodes" =>
            outcome[m.of] = "ready"
       /\ m.kind # "documents" =>
            \A p \in seen[w] : p[1] = p[2] /\ \A j \in 1..p[1] : <<j, j>> \in seen[w]
       /\ m.kind = "documents" /\ wpc[w] = "finished" => known[w] \subseteq Got(w)
  BY <1>2 DEF WalkOK
<1>15. QED
  <2>1. /\ (wpc[w] = "idle" => offset[w] = 0 /\ seen[w] = {} /\ known[w] = {})'
        /\ (\A p \in seen[w] : p[1] \in Nat /\ p[2] \in Rows(list[w]))'
        /\ (\A i \in 1..offset[w] : \E p \in seen[w] : p[1] = i)'
    BY <1>1, <1>4, <1>8, <1>14
  <2>2. /\ (wpc[w] = "counted" => total[w] <= Cardinality(Rows(list[w])))'
        /\ (wpc[w] = "finished" => \A i \in 1..total[w] : \E p \in seen[w] : p[1] = i)'
        /\ (wpc[w] \in {"checked", "counted", "finished"} /\ list[w].kind = "nodes" =>
              outcome[list[w].of] = "ready")'
    BY <1>1, <1>2, <1>4, <1>6, <1>8, <1>14
  <2>3. (list[w].kind # "documents" =>
           /\ \A p \in seen[w] : p[1] = p[2] /\ \A j \in 1..p[1] : <<j, j>> \in seen[w]
           /\ wpc[w] = "finished" /\ list[w].kind = "nodes" => Rows(list[w]) \subseteq Got(w))'
    BY <1>1, <1>2, <1>4, <1>9, <1>11, <1>14
  <2>4. (list[w].kind = "documents" =>
           /\ known[w] \subseteq documents
           /\ \A d \in known[w] : d \in Got(w) \/ Place(list[w], d) > offset[w]
           /\ wpc[w] = "finished" => known[w] \subseteq Got(w))'
    <3>1. known'[w] = known[w] /\ list'[w] = m /\ offset'[w] = offset[w] /\ wpc'[w] = wpc[w]
      BY <1>1, <1>2
    <3>2. QED
      BY <1>2, <1>5, <1>11, <1>12, <1>13, <1>14, <3>1
  <2>5. QED
    BY <2>1, <2>2, <2>3, <2>4 DEF WalkOK


LEMMA SameRows ==
  ASSUME UNCHANGED <<table, age>>, NEW l \in Lists
  PROVE  Rows(l)' = Rows(l) /\ \A x : Place(l, x)' = Place(l, x)
<1>1. UNCHANGED <<catalog, outcome, tree, documents, age>>
  BY DEF table
<1>2. Rows(l)' = Rows(l)
  BY <1>1 DEF Rows, NodeRows
<1>3. \A x : Place(l, x)' = Place(l, x)
  BY <1>1, <1>2 DEF Place, Before
<1>4. QED
  BY <1>2, <1>3

\* A walk that does nothing while the tables stay.
LEMMA WalkStays ==
  ASSUME ReadsTypeOK, UNCHANGED <<table, age>>, NEW w \in Walkers, WalkOK(w),
         wpc'[w] = wpc[w], list'[w] = list[w], offset'[w] = offset[w],
         total'[w] = total[w], seen'[w] = seen[w], known'[w] = known[w]
  PROVE  WalkOK(w)'
<1>1. PICK m \in Lists : m = list[w] /\ m = list'[w]
  BY DEF ReadsTypeOK
<1>2. /\ Rows(list[w])' = Rows(list[w])
      /\ \A x : Place(list[w], x)' = Place(list[w], x)
  BY <1>1, SameRows
<1>3. UNCHANGED <<outcome, documents>> /\ Got(w)' = Got(w)
  BY DEF table, Got
<1>4. QED
  BY <1>2, <1>3 DEF WalkOK

LEMMA StartOK ==
  ASSUME ReadsTypeOK, AgesDiffer, NEW w \in Walkers, WalkOK(w),
         NEW l \in Lists, StartWalk(w, l)
  PROVE  WalkOK(w)'
<1>1. /\ wpc'[w] = "asking" /\ list'[w] = l /\ known'[w] = documents
      /\ UNCHANGED <<table, age, offset, total, seen>> /\ wpc[w] = "idle"
  BY DEF StartWalk, ReadsTypeOK
<1>2. offset[w] = 0 /\ seen[w] = {}
  BY <1>1 DEF WalkOK
<1>3. l.kind = "documents" => \A d \in documents : Place(l, d) > 0
  <2>1. ASSUME l.kind = "documents", NEW d \in documents
        PROVE  Place(l, d) > 0
    <3>1. d \in Rows(l)
      BY <2>1, ListRows
    <3>2. Place(l, d) \in 1..Cardinality(Rows(l)) /\ Cardinality(Rows(l)) \in Nat
      BY <3>1, Places
    <3>3. QED
      BY <3>2
  <2>2. QED
    BY <2>1
<1>4. \A d \in documents : Place(list[w], d)' = Place(l, d)
  BY <1>1, SameRows
<1>5. UNCHANGED documents
  BY <1>1 DEF table
<1>6. l.kind = "documents" => \A d \in documents : Place(list[w], d)' > 0
  BY <1>3, <1>4
<1>7. QED
  BY <1>1, <1>2, <1>5, <1>6 DEF WalkOK

LEMMA CheckOK ==
  ASSUME ReadsTypeOK, AgesDiffer, NEW w \in Walkers, WalkOK(w),
         CheckList(w) \/ ReadFails(w) \/ CountRows(w)
  PROVE  WalkOK(w)'
<1>1. /\ UNCHANGED <<table, age, list, offset, seen, known>>
      /\ wpc'[w] \in {"asking", "checked", "counted", "refused"}
      /\ wpc'[w] = "checked" => MayList(list[w])
      /\ wpc'[w] = "counted" => /\ wpc[w] = "checked"
                                /\ total'[w] = Cardinality(Rows(list[w]))
  BY DEF CheckList, ReadFails, CountRows, ReadsTypeOK
<1>2. PICK m \in Lists : m = list[w] /\ m = list'[w]
  BY <1>1 DEF ReadsTypeOK
<1>3. /\ Rows(list[w])' = Rows(list[w])
      /\ \A x : Place(list[w], x)' = Place(list[w], x)
      /\ Cardinality(Rows(list[w])) \in Nat
  BY <1>1, <1>2, SameRows, Places
<1>4. UNCHANGED <<outcome, documents>> /\ Got(w)' = Got(w)
  BY <1>1 DEF table, Got
<1>5. wpc'[w] \in {"checked", "counted"} /\ list[w].kind = "nodes" =>
        outcome[list[w].of] = "ready"
  BY <1>1 DEF MayList, WalkOK
<1>6. QED
  BY <1>1, <1>3, <1>4, <1>5 DEF WalkOK

LEMMA FetchOK ==
  ASSUME ReadsTypeOK, AgesDiffer, NEW w \in Walkers, WalkOK(w), FetchPage(w)
  PROVE  WalkOK(w)'
<1> DEFINE n == Cardinality(Rows(list[w]))
           from == offset[w] + 1
           to == offset[w] + Limit
           P == PageOf(w)
<1>1. /\ wpc[w] = "counted" /\ TakePage(w, P)
      /\ UNCHANGED <<table, age, list, total, known>>
  BY DEF FetchPage, PageOf
<1>2. PICK m \in Lists : m = list[w] /\ m = list'[w]
  BY <1>1 DEF ReadsTypeOK
<1>3. /\ Rows(list[w])' = Rows(list[w])
      /\ \A x : Place(list[w], x)' = Place(list[w], x)
  BY <1>1, <1>2, SameRows
<1>4. UNCHANGED <<outcome, documents>>
  BY <1>1 DEF table
<1>5. /\ n \in Nat /\ offset[w] \in Nat /\ total[w] \in Nat
      /\ Limit \in Nat /\ Limit # 0 /\ list[w] \in Lists
      /\ \A x \in Rows(list[w]) : Place(list[w], x) \in 1..n
      /\ \A x, y \in Rows(list[w]) : Place(list[w], x) = Place(list[w], y) => x = y
      /\ list[w].kind # "documents" =>
           \A x \in Rows(list[w]) : Place(list[w], x) = x /\ x \in Nat
  BY <1>2, Places, ReadsAssumption DEF ReadsTypeOK
<1>6. /\ Cardinality(P) = Limit => n >= to
      /\ \A i \in from..to : i <= n => \E p \in P : p[1] = i
      /\ Cardinality(P) # Limit => n < to
  BY Pages
<1>7. \A p \in P : /\ p[2] \in Rows(list[w]) /\ p[1] = Place(list[w], p[2])
                   /\ p[1] \in from..to /\ p = <<p[1], p[2]>>
  BY DEF PageOf
<1>8. seen'[w] = seen[w] \cup P
  BY <1>1 DEF TakePage, ReadsTypeOK
<1> HIDE DEF n, from, to, P
<1>9. from = offset[w] + 1 /\ to = offset[w] + Limit /\ n = Cardinality(Rows(list[w]))
  BY DEF n, from, to
<1>10. \A p \in seen'[w] : p[1] \in Nat /\ p[2] \in Rows(list[w])
  <2>1. \A p \in P : p[1] \in Nat
    BY <1>5, <1>7, <1>9
  <2>2. QED
    BY <1>7, <1>8, <2>1 DEF WalkOK
\* The rows got so far have every place below the end of the page, as far as there are rows.
<1>11. \A i \in 1..to : i <= n => \E p \in seen'[w] : p[1] = i
  <2>1. ASSUME NEW i \in 1..to, i <= n PROVE \E p \in seen'[w] : p[1] = i
    <3>1. i \in 1..offset[w] \/ i \in from..to
      BY <1>5, <1>9
    <3>2. QED
      BY <1>6, <1>8, <2>1, <3>1 DEF WalkOK
  <2>2. QED
    BY <2>1
<1>12. list[w].kind # "documents" =>
         \A p \in seen'[w] : p[1] = p[2] /\ \A j \in 1..p[1] : <<j, j>> \in seen'[w]
  <2>1. SUFFICES ASSUME list[w].kind # "documents"
                 PROVE  \A p \in seen'[w] :
                          p[1] = p[2] /\ \A j \in 1..p[1] : <<j, j>> \in seen'[w]
    OBVIOUS
  <2>2. \A p \in P : p[1] = p[2] /\ p = <<p[1], p[1]>>
    BY <1>5, <1>7, <2>1
  <2>3. \A p \in seen[w] : p[1] = p[2] /\ p = <<p[1], p[1]>>
    BY <2>1 DEF WalkOK, ReadsTypeOK
  <2>4. \A p \in seen'[w] : p[1] = p[2] /\ p = <<p[1], p[1]>> /\ p[1] \in Nat
    BY <1>8, <1>10, <2>2, <2>3
  <2>5. ASSUME NEW p \in P, NEW j \in 1..p[1]
        PROVE  <<j, j>> \in seen'[w]
    <3>1. p[1] \in from..to /\ p[1] \in 1..n
      BY <1>5, <1>7, <1>9
    <3>2. j \in 1..to /\ j <= n
      BY <1>5, <1>9, <3>1
    <3>3. PICK q \in seen'[w] : q[1] = j
      BY <1>11, <3>2
    <3>4. QED
      BY <2>4, <3>3
  <2>6. \A p \in seen[w] : \A j \in 1..p[1] : <<j, j>> \in seen'[w]
    BY <1>8, <2>1 DEF WalkOK
  <2>7. QED
    BY <1>8, <2>4, <2>5, <2>6
<1>13. Got(w)' = {p[2] : p \in seen'[w]}
  BY DEF Got
<1>14. Got(w) \subseteq Got(w)' /\ \A p \in P : p[2] \in Got(w)'
  BY <1>8, <1>13 DEF Got
\* A row that the client does not have lies beyond the page.
<1>15. \A x \in Rows(list[w]) : x \in Got(w)' \/ Place(list[w], x) <= offset[w]
                               \/ Place(list[w], x) > to
  <2>1. ASSUME NEW x \in Rows(list[w]), Place(list[w], x) > offset[w], Place(list[w], x) <= to
        PROVE  x \in Got(w)'
    <3>1. Place(list[w], x) \in from..to /\ Place(list[w], x) <= n
      BY <1>5, <1>9, <2>1
    <3>2. PICK p \in P : p[1] = Place(list[w], x)
      BY <1>6, <3>1
    <3>3. p[2] = x
      BY <1>5, <1>7, <3>2
    <3>4. QED
      BY <1>14, <3>2, <3>3
  <2>2. \A x \in Rows(list[w]) : Place(list[w], x) \in Int
    BY <1>5
  <2>3. QED
    BY <1>5, <1>9, <2>1, <2>2
<1>16. list[w].kind = "documents" =>
         /\ known[w] \subseteq documents /\ documents = Rows(list[w])
         /\ \A d \in known[w] : d \in Got(w)' \/ Place(list[w], d) > to
  <2>1. SUFFICES ASSUME list[w].kind = "documents"
                 PROVE  /\ known[w] \subseteq documents /\ documents = Rows(list[w])
                        /\ \A d \in known[w] : d \in Got(w)' \/ Place(list[w], d) > to
    OBVIOUS
  <2>2. known[w] \subseteq documents /\ documents = Rows(list[w])
    BY <1>5, <2>1, ListRows DEF WalkOK
  <2>3. ASSUME NEW d \in known[w], d \notin Got(w)'
        PROVE  Place(list[w], d) > to
    <3>1. d \notin Got(w)
      BY <1>14, <2>3
    <3>2. Place(list[w], d) > offset[w] /\ Place(list[w], d) \in Nat
      BY <1>5, <2>1, <2>2, <3>1 DEF WalkOK
    <3>3. QED
      BY <1>5, <1>15, <2>2, <2>3, <3>2
  <2>4. QED
    BY <2>2, <2>3
<1>17. list[w].kind = "nodes" => outcome[list[w].of] = "ready"
  BY <1>1 DEF WalkOK
<1>18. total[w] <= n
  BY <1>1, <1>9 DEF WalkOK
<1>19. CASE Cardinality(P) = Limit
  <2>1. wpc'[w] = "asking" /\ offset'[w] = to
    BY <1>1, <1>9, <1>19 DEF TakePage, ReadsTypeOK
  <2>2. \A i \in 1..to : \E p \in seen'[w] : p[1] = i
    BY <1>5, <1>6, <1>9, <1>11, <1>19
  <2>3. QED
    BY <1>1, <1>3, <1>4, <1>10, <1>12, <1>16, <2>1, <2>2 DEF WalkOK
<1>20. CASE Cardinality(P) # Limit
  <2>1. wpc'[w] = "finished" /\ offset'[w] = offset[w]
    BY <1>1, <1>20 DEF TakePage, ReadsTypeOK
  <2>2. \A i \in 1..offset[w] : \E p \in seen'[w] : p[1] = i
    BY <1>8 DEF WalkOK
  <2>3. \A i \in 1..total[w] : \E p \in seen'[w] : p[1] = i
    BY <1>5, <1>6, <1>9, <1>11, <1>18, <1>20
  <2>4. \A x \in Rows(list[w]) : ~ (Place(list[w], x) > to)
    BY <1>5, <1>6, <1>9, <1>20
  <2>5. list[w].kind = "documents" => known[w] \subseteq Got(w)'
    BY <1>16, <2>4
  <2>6. list[w].kind = "nodes" => Rows(list[w]) \subseteq Got(w)'
    <3>1. SUFFICES ASSUME list[w].kind = "nodes", NEW x \in Rows(list[w])
                   PROVE  x \in Got(w)'
      OBVIOUS
    <3>2. x \in 1..n
      BY <1>5, <1>9, <3>1
    <3>3. PICK p \in seen'[w] : p[1] = x
      BY <1>5, <1>6, <1>9, <1>11, <1>20, <3>2
    <3>4. QED
      BY <1>12, <1>13, <3>1, <3>3
  <2>7. \A d \in known[w] : list[w].kind = "documents" => d \in Got(w)'
    BY <2>5
  <2>8. QED
    BY <1>1, <1>3, <1>4, <1>10, <1>12, <1>16, <1>17, <2>1, <2>2, <2>3, <2>5, <2>6 DEF WalkOK
<1>21. QED
  BY <1>19, <1>20

\* Every step leaves every walk as the invariant wants it.
LEMMA WalksStep ==
  ASSUME ReadsIInv, ReadsTypeOK', AgesDiffer', ReadsNext, NEW w \in Walkers
  PROVE  WalkOK(w)'
<1> USE DEF ReadsIInv
<1>1. ASSUME NEW u \in Walkers, u # w, WalkStep(u)
      PROVE  WalkOK(w)'
  <2>1. /\ UNCHANGED <<table, age>>
        /\ wpc'[w] = wpc[w] /\ list'[w] = list[w] /\ offset'[w] = offset[w]
        /\ total'[w] = total[w] /\ seen'[w] = seen[w] /\ known'[w] = known[w]
    BY <1>1 DEF WalkStep, StartWalk, CheckList, CountRows, FetchPage, TakePage, ReadFails,
                ReadsTypeOK
  <2>2. QED
    BY <2>1, WalkStays
<1>2. CASE WalkStep(w)
  BY <1>2, StartOK, CheckOK, FetchOK DEF WalkStep
<1>3. ASSUME NEW s \in Selectors, SelectStep(s)
      PROVE  WalkOK(w)'
  <2>1. UNCHANGED <<table, age, walk>>
    BY <1>3 DEF SelectStep, GetVersion, GetNode, Flush, Commit, SelectionFails
  <2>2. QED
    BY <2>1, WalkStays DEF walk
<1>4. QED
  BY <1>1, <1>2, <1>3, WalkTables DEF ReadsNext

-----------------------------------------------------------------------------
(* Selections.                                                             *)

\* Nodes that can be found stay.
LEMMA SelectTables ==
  ASSUME ReadsTypeOK, ReadsTypeOK',
         CatalogStep \/ \E d \in Docs : CreateDocument(d),
         NEW s \in Selectors, SelectOK(s)
  PROVE  SelectOK(s)'
<1>1. UNCHANGED <<spc, scope, chosen, next, foreign, row, links>>
  BY DEF CatalogStep, CreateDocument, selecting
<1>2. NodeRows \subseteq NodeRows'
  <2>1. ASSUME NEW x \in Nodes, x \in NodeRows PROVE x \in NodeRows'
    <3>1. x[1] \in Ids /\ outcome[x[1]] = "ready" /\ x[2] <= tree[x[1]]
      BY <2>1 DEF Nodes, NodeRows
    <3>2. QED
      BY <2>1, <3>1, TablesGrow DEF NodeRows
  <2>2. QED
    BY <2>1 DEF NodeRows
<1>3. scope[s] \in Ids
  BY DEF ReadsTypeOK
<1>4. outcome[scope[s]] = "ready" => outcome'[scope[s]] = "ready"
  BY <1>3, TablesGrow
<1>5. Named(s)' = Named(s)
  BY <1>1 DEF Named
<1>6. QED
  BY <1>1, <1>2, <1>4, <1>5 DEF SelectOK

LEMMA SelectStays ==
  ASSUME UNCHANGED table, NEW s \in Selectors, SelectOK(s),
         spc'[s] = spc[s], scope'[s] = scope[s], chosen'[s] = chosen[s],
         next'[s] = next[s], foreign'[s] = foreign[s], row'[s] = row[s], links'[s] = links[s]
  PROVE  SelectOK(s)'
<1>1. NodeRows' = NodeRows /\ UNCHANGED outcome /\ Named(s)' = Named(s)
  BY DEF table, NodeRows, Named
<1>2. QED
  BY <1>1 DEF SelectOK

LEMMA GetVersionOK ==
  ASSUME ReadsTypeOK, NEW s \in Selectors, SelectOK(s), NEW c \in Requests, Shown(c),
         GetVersion(s, c)
  PROVE  SelectOK(s)'
<1>1. /\ spc[s] = "idle" /\ chosen'[s] = c
      /\ spc'[s] \in {"empty", "missing", "unready", "checking"}
      /\ spc'[s] = "checking" => c # <<>> /\ outcome[scope[s]] = "ready"
      /\ UNCHANGED <<table, scope, next, foreign, row, links>>
  BY DEF GetVersion, ReadsTypeOK
<1>2. NodeRows' = NodeRows /\ UNCHANGED outcome
  BY <1>1 DEF table, NodeRows
<1>3. Len(c) \in Nat /\ \A i \in 1..Len(c) : c[i] \in NodeRows \cup {NoNode}
  BY RequestShape DEF Shown
<1>4. next[s] = 1 /\ ~foreign[s] /\ ~row[s] /\ 1 <= Len(c) + 1
  BY <1>1, <1>3 DEF SelectOK
<1>5. QED
  BY <1>1, <1>2, <1>3, <1>4 DEF SelectOK

\* What is known of the nodes that have been looked up, when they all have been.
LEMMA AllLookedUp ==
  ASSUME ReadsTypeOK, NEW s \in Selectors, SelectOK(s), spc[s] = "checking",
         next[s] > Len(chosen[s])
  PROVE  /\ next[s] = Len(chosen[s]) + 1 /\ Len(chosen[s]) \in Nat /\ chosen[s] # <<>>
         /\ DOMAIN chosen[s] = 1..Len(chosen[s]) /\ Named(s) \subseteq NodeRows
         /\ NoNode \notin Named(s)
         /\ foreign[s] => \E x \in Named(s) : x[1] # scope[s]
         /\ ~foreign[s] => \A x \in Named(s) : x[1] = scope[s]
<1>1. /\ chosen[s] \in Requests /\ next[s] \in Nat
  BY DEF ReadsTypeOK
<1>2. Len(chosen[s]) \in Nat /\ DOMAIN chosen[s] = 1..Len(chosen[s])
  BY <1>1, RequestShape
<1>3. next[s] = Len(chosen[s]) + 1 /\ chosen[s] # <<>>
  BY <1>1, <1>2 DEF SelectOK
<1>4. \A i \in DOMAIN chosen[s] :
        chosen[s][i] \in NodeRows /\ (chosen[s][i][1] # scope[s] => foreign[s])
  BY <1>2, <1>3 DEF SelectOK
<1>5. foreign[s] => \E i \in DOMAIN chosen[s] : chosen[s][i][1] # scope[s]
  BY <1>2 DEF SelectOK
<1>6. NodeRows \subseteq Nodes /\ NoNode \notin Nodes
  BY ReadsAssumption DEF NodeRows, Nodes
<1>7. QED
  BY <1>2, <1>3, <1>4, <1>5, <1>6 DEF Named

\* Fewer names than positions: one is named twice.
LEMMA NamedTwice ==
  ASSUME ReadsTypeOK, NEW s \in Selectors, Cardinality(Named(s)) < Len(chosen[s])
  PROVE  \E i, j \in DOMAIN chosen[s] : i < j /\ chosen[s][i] = chosen[s][j]
<1> DEFINE c == chosen[s]
           n == Len(c)
<1>1. c \in Seq(Nodes \cup {NoNode}) /\ n \in Nat /\ DOMAIN c = 1..n
  BY RequestShape DEF ReadsTypeOK
<1>2. SUFFICES ASSUME \A i, j \in 1..n : i < j => c[i] # c[j]
               PROVE  Cardinality(Named(s)) = n
  BY <1>1
<1>3. \A i, j \in 1..n : c[i] = c[j] => i = j
  BY <1>1, <1>2
<1>4. c \in [1..n -> Named(s)] /\ \A x \in Named(s) : \E i \in 1..n : c[i] = x
  BY <1>1 DEF Named
<1>5. c \in Bijection(1..n, Named(s))
  BY <1>3, <1>4 DEF Bijection, Injection, Surjection, IsInjective
<1>6. ExistsBijection(1..n, Named(s))
  BY <1>5 DEF ExistsBijection
<1>7. QED
  BY <1>1, <1>6, FS_CountingElements

LEMMA GetNodeOK ==
  ASSUME ReadsTypeOK, NEW s \in Selectors, SelectOK(s), GetNode(s)
  PROVE  SelectOK(s)'
<1> DEFINE x == chosen[s][next[s]]
<1>1. /\ spc[s] = "checking" /\ next[s] <= Len(chosen[s])
      /\ UNCHANGED <<table, scope, chosen, row, links>>
  BY DEF GetNode
<1>2. /\ NodeRows' = NodeRows /\ UNCHANGED outcome /\ Named(s)' = Named(s)
  BY <1>1 DEF table, NodeRows, Named
<1>3. /\ Len(chosen[s]) \in Nat /\ DOMAIN chosen[s] = 1..Len(chosen[s])
      /\ next[s] \in 1..Len(chosen[s])
  BY <1>1, RequestShape DEF ReadsTypeOK
<1>4. ~ row[s]
  BY <1>1 DEF SelectOK
<1>5. CASE x \in NodeRows
  <2>1. /\ next'[s] = next[s] + 1 /\ spc'[s] = "checking"
        /\ foreign'[s] = (foreign[s] \/ x[1] # scope[s])
    BY <1>1, <1>5 DEF GetNode, ReadsTypeOK
  <2>2. \A i \in 1..(next'[s] - 1) :
          chosen[s][i] \in NodeRows /\ (chosen[s][i][1] # scope[s] => foreign'[s])
    <3>1. ASSUME NEW i \in 1..(next'[s] - 1)
          PROVE  chosen[s][i] \in NodeRows /\ (chosen[s][i][1] # scope[s] => foreign'[s])
      <4>1. i \in 1..(next[s] - 1) \/ i = next[s]
        BY <1>3, <2>1, <3>1
      <4>2. CASE i \in 1..(next[s] - 1)
        BY <1>1, <2>1, <4>2 DEF SelectOK
      <4>3. CASE i = next[s]
        BY <1>5, <2>1, <4>3
      <4>4. QED
        BY <4>1, <4>2, <4>3
    <3>2. QED
      BY <3>1
  <2>3. foreign'[s] => \E i \in 1..Len(chosen[s]) :
                         chosen[s][i] \in NodeRows /\ chosen[s][i][1] # scope[s]
    BY <1>1, <1>3, <1>5, <2>1 DEF SelectOK
  <2>4. next'[s] <= Len(chosen[s]) + 1
    BY <1>1, <1>3, <2>1
  <2>5. next'[s] = next[s] + 1 /\ spc'[s] = "checking" /\ row'[s] = row[s]
        /\ scope'[s] = scope[s] /\ chosen'[s] = chosen[s]
    BY <1>1, <2>1
  <2>6. outcome[scope[s]] = "ready" /\ chosen[s] # <<>>
        /\ \A i \in 1..Len(chosen[s]) : chosen[s][i] \in NodeRows \cup {NoNode}
    BY <1>1 DEF SelectOK
  <2> HIDE DEF x
  <2>7. ~ row'[s] /\ NodeRows' = NodeRows /\ outcome' = outcome
    BY <1>2, <1>4, <2>5
  <2>8. (/\ outcome[scope[s]] = "ready" /\ chosen[s] # <<>>
         /\ next[s] <= Len(chosen[s]) + 1
         /\ \A i \in 1..(next[s] - 1) :
              chosen[s][i] \in NodeRows /\ (chosen[s][i][1] # scope[s] => foreign[s])
         /\ foreign[s] => \E i \in 1..Len(chosen[s]) :
              chosen[s][i] \in NodeRows /\ chosen[s][i][1] # scope[s])'
    BY <2>2, <2>3, <2>4, <2>5, <2>6, <2>7
  <2>9. (\A i \in 1..Len(chosen[s]) : chosen[s][i] \in NodeRows \cup {NoNode})'
    BY <2>5, <2>6, <2>7
  <2>10. QED
    BY <2>5, <2>7, <2>8, <2>9 DEF SelectOK
<1>6. CASE x \notin NodeRows
  <2>1. spc'[s] = "unknown" /\ UNCHANGED <<next, foreign>>
    BY <1>1, <1>6 DEF GetNode, ReadsTypeOK
  <2>2. x = NoNode
    BY <1>3, <1>6 DEF SelectOK
  <2>3. NoNode \in Named(s)
    BY <1>3, <2>2 DEF Named
  <2>4. QED
    BY <1>1, <1>2, <1>4, <2>1, <2>3 DEF SelectOK
<1>7. QED
  BY <1>5, <1>6

LEMMA FlushOK ==
  ASSUME ReadsTypeOK, NEW s \in Selectors, SelectOK(s), Flush(s)
  PROVE  SelectOK(s)'
<1>1. /\ spc[s] = "checking" /\ next[s] > Len(chosen[s])
      /\ spc'[s] \in {"crossed", "conflict", "flushed"}
      /\ spc'[s] = "crossed" <=> foreign[s]
      /\ spc'[s] = "conflict" => Cardinality(Named(s)) < Len(chosen[s])
      /\ UNCHANGED <<table, scope, chosen, next, foreign, row, links>>
  BY DEF Flush, ReadsTypeOK
<1>2. NodeRows' = NodeRows /\ UNCHANGED outcome /\ Named(s)' = Named(s)
  BY <1>1 DEF table, NodeRows, Named
<1>3. ~ row[s]
  BY <1>1 DEF SelectOK
<1>4. /\ next[s] = Len(chosen[s]) + 1 /\ NoNode \notin Named(s)
      /\ foreign[s] => \E x \in Named(s) : x[1] # scope[s]
  BY <1>1, AllLookedUp
<1>5. spc'[s] = "conflict" =>
        \E i, j \in DOMAIN chosen[s] : i < j /\ chosen[s][i] = chosen[s][j]
  BY <1>1, NamedTwice
<1>6. QED
  BY <1>1, <1>2, <1>3, <1>4, <1>5 DEF SelectOK

LEMMA CommitOK ==
  ASSUME ReadsTypeOK, NEW s \in Selectors, SelectOK(s), Commit(s) \/ SelectionFails(s)
  PROVE  SelectOK(s)'
<1>1. /\ spc[s] \in {"checking", "flushed"}
      /\ spc'[s] \in {"created", "failed"} /\ (spc'[s] = "created" => row'[s])
      /\ \/ row'[s] = row[s] /\ links'[s] = links[s]
         \/ spc[s] = "flushed" /\ row'[s] = TRUE /\ links'[s] = Named(s)
      /\ UNCHANGED <<table, scope, chosen, next, foreign>>
  BY DEF Commit, SelectionFails, Publish, ReadsTypeOK
<1>2. NodeRows' = NodeRows /\ UNCHANGED outcome /\ Named(s)' = Named(s)
  BY <1>1 DEF table, NodeRows, Named
<1>3. ~ row[s]
  BY <1>1 DEF SelectOK
<1>4. QED
  BY <1>1, <1>2, <1>3 DEF SelectOK

LEMMA SelectsStep ==
  ASSUME ReadsIInv, ReadsTypeOK', ReadsNext, NEW s \in Selectors
  PROVE  SelectOK(s)'
<1> USE DEF ReadsIInv
<1>1. ASSUME NEW t \in Selectors, t # s, SelectStep(t)
      PROVE  SelectOK(s)'
  <2>1. /\ UNCHANGED table
        /\ spc'[s] = spc[s] /\ scope'[s] = scope[s] /\ chosen'[s] = chosen[s]
        /\ next'[s] = next[s] /\ foreign'[s] = foreign[s]
        /\ row'[s] = row[s] /\ links'[s] = links[s]
    BY <1>1 DEF SelectStep, GetVersion, GetNode, Flush, Commit, SelectionFails, Publish,
                ReadsTypeOK
  <2>2. QED
    BY <2>1, SelectStays
<1>2. CASE SelectStep(s)
  BY <1>2, GetVersionOK, GetNodeOK, FlushOK, CommitOK DEF SelectStep
<1>3. ASSUME NEW w \in Walkers, WalkStep(w)
      PROVE  SelectOK(s)'
  <2>1. UNCHANGED <<table, selecting>>
    BY <1>3 DEF WalkStep, StartWalk, CheckList, CountRows, FetchPage, ReadFails
  <2>2. QED
    BY <2>1, SelectStays DEF selecting
<1>4. QED
  BY <1>1, <1>2, <1>3, SelectTables DEF ReadsNext

-----------------------------------------------------------------------------
(* Theorems.                                                               *)

LEMMA InvStep == ReadsIInv /\ [ReadsNext]_reads => ReadsIInv'
<1> SUFFICES ASSUME ReadsIInv, [ReadsNext]_reads PROVE ReadsIInv'
  OBVIOUS
<1>1. CASE ReadsNext
  <2>1. ReadsTypeOK' /\ AgesDiffer'
    BY <1>1, TypeStep DEF ReadsIInv
  <2>2. QED
    BY <1>1, <2>1, WalksStep, SelectsStep DEF ReadsIInv
<1>2. CASE UNCHANGED reads
  <2>1. UNCHANGED <<table, age, walk, selecting>>
    BY <1>2 DEF reads
  <2>2. ReadsTypeOK' /\ AgesDiffer'
    BY <2>1 DEF ReadsIInv, ReadsTypeOK, AgesDiffer, table, walk, selecting
  <2>3. ASSUME NEW w \in Walkers PROVE WalkOK(w)'
    BY <2>1, WalkStays DEF ReadsIInv, walk
  <2>4. ASSUME NEW s \in Selectors PROVE SelectOK(s)'
    BY <2>1, SelectStays DEF ReadsIInv, selecting
  <2>5. QED
    BY <2>2, <2>3, <2>4 DEF ReadsIInv
<1>3. QED
  BY <1>1, <1>2

LEMMA Invariance == ReadsSpec => []ReadsIInv
BY InitInv, InvStep, PTL DEF ReadsSpec

\* The variables keep their types and bounds.
THEOREM ReadsTypes == ReadsSpec => []ReadsTypeOK
<1>1. ReadsIInv => ReadsTypeOK
  BY DEF ReadsIInv
<1>2. QED
  BY <1>1, Invariance, PTL

\* A walk through the documents meets every one there was when it began, whatever
\* is uploaded meanwhile (list_paginated).
THEOREM WalksMeetEveryDocument == ReadsSpec => []NoDocumentSkipped
<1>1. ReadsIInv => NoDocumentSkipped
  BY DEF ReadsIInv, NoDocumentSkipped, WalkOK
<1>2. QED
  BY <1>1, Invariance, PTL

\* A finished walk has as many rows as its last total promised, although total and
\* page are two queries (list_for_document, list_for_version).
THEOREM TotalsAreReached == ReadsSpec => []TotalIsReached
<1>1. ReadsIInv => TotalIsReached
  BY DEF ReadsIInv, TotalIsReached, WalkOK
<1>2. QED
  BY <1>1, Invariance, PTL

\* Walks through versions and nodes get each row once, in order, and a walk
\* through nodes the whole tree.
THEOREM WalksAreExact == ReadsSpec => []WalkIsExact
<1>1. ReadsIInv => WalkIsExact
  <2>1. SUFFICES ASSUME ReadsIInv, NEW w \in Walkers, list[w].kind # "documents"
                 PROVE  /\ \A p \in seen[w] :
                             p[1] = p[2] /\ \A j \in 1..p[1] : <<j, j>> \in seen[w]
                        /\ wpc[w] = "finished" /\ list[w].kind = "nodes" =>
                             Got(w) = 1..tree[list[w].of]
    BY DEF WalkIsExact
  <2>2. WalkOK(w) /\ list[w] \in Lists /\ ReadsTypeOK
    BY <2>1 DEF ReadsIInv, ReadsTypeOK
  <2>3. Got(w) \subseteq Rows(list[w])
    BY <2>2 DEF Got, WalkOK
  <2>4. wpc[w] = "finished" /\ list[w].kind = "nodes" =>
          Rows(list[w]) = 1..tree[list[w].of] /\ Rows(list[w]) \subseteq Got(w)
    BY <2>2, ListRows DEF WalkOK
  <2>5. QED
    BY <2>1, <2>2, <2>3, <2>4 DEF WalkOK
<1>2. QED
  BY <1>1, Invariance, PTL

\* No reader meets a selection without its nodes, or with nodes of another version
\* or of one that is not READY (create_selection).
THEOREM SelectionsStayWhole == ReadsSpec => []SelectionsAreWhole
<1>1. ReadsIInv => SelectionsAreWhole
  <2>1. SUFFICES ASSUME ReadsIInv, NEW s \in Selectors, row[s]
                 PROVE  /\ links[s] = Named(s) /\ links[s] # {}
                        /\ links[s] \subseteq NodeRows \cap ({scope[s]} \X (1..MaxNodes))
    BY DEF SelectionsAreWhole
  <2>2. SelectOK(s) /\ chosen[s] \in Requests
    BY <2>1 DEF ReadsIInv, ReadsTypeOK
  <2>3. /\ Len(chosen[s]) \in Nat /\ DOMAIN chosen[s] = 1..Len(chosen[s])
        /\ chosen[s] \in Seq(Nodes \cup {NoNode})
    BY <2>2, RequestShape
  <2>4. /\ links[s] = Named(s) /\ chosen[s] # <<>>
        /\ \A i \in 1..Len(chosen[s]) :
             chosen[s][i] \in NodeRows /\ chosen[s][i][1] = scope[s]
    BY <2>1, <2>2, <2>3 DEF SelectOK
  <2>5. 1 \in DOMAIN chosen[s]
    BY <2>3, <2>4
  <2>6. \A x \in NodeRows : x \in {x[1]} \X (1..MaxNodes)
    BY DEF NodeRows, Nodes
  <2>7. \A i \in DOMAIN chosen[s] :
          chosen[s][i] \in NodeRows \cap ({scope[s]} \X (1..MaxNodes))
    BY <2>3, <2>4, <2>6
  <2>8. QED
    BY <2>4, <2>5, <2>7 DEF Named
<1>2. QED
  BY <1>1, Invariance, PTL

\* The answer to a request is true of it when it is given, and stays true.
THEOREM SelectionAnswersAreTrue == ReadsSpec => []AnswersAreTrue
<1>1. ReadsIInv => AnswersAreTrue
  BY DEF ReadsIInv, AnswersAreTrue, SelectOK
<1>2. QED
  BY <1>1, Invariance, PTL
=============================================================================
