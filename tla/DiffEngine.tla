----------------------------- MODULE DiffEngine -----------------------------
(***************************************************************************)
(* diff_versions (versioning/differ.py) with its HashPositionIndex         *)
(* (versioning/matcher.py): a greedy assignment of old nodes to new ones.  *)
(* Which old node a new node finds depends on what earlier new nodes took, *)
(* so phase 1 is one step per new node; the later phases are one step each.*)
(***************************************************************************)
EXTENDS Integers, FiniteSets

CONSTANTS
  Hashes,      \* content hashes
  MaxNodes,    \* bound: nodes in a version
  Tolerance,   \* the tolerance argument, DIFF_POSITION_TOLERANCE by default
  NoPos        \* a position field that is None

ASSUME DiffAssumption ==
  /\ MaxNodes \in Nat
  /\ Tolerance \in Nat
  /\ NoPos \notin Int

VARIABLES
  old, new,    \* the two versions: position_index -> content_hash
  phase,       \* "hash", "position", "deleted" or "done"
  next,        \* position of the new node phase 1 looks at
  consumed,    \* old positions taken in phase 1 (HashPositionIndex._consumed)
  diffs,       \* NodeDiff entries so far
  report       \* the list returned: the entries in order

vars == <<old, new, phase, next, consumed, diffs, report>>

\* get_nodes_for_diff: the builder numbers a version's nodes 0, 1, 2, ...
Trees == UNION {[0..(n - 1) -> Hashes] : n \in 0..MaxNodes}

\* A NodeDiff.
Entry(s, o, n) == [status |-> s, old |-> o, new |-> n]

Position == 0..(MaxNodes - 1)

TypeOK ==
  /\ old \in Trees
  /\ new \in Trees
  /\ phase \in {"hash", "position", "deleted", "done"}
  /\ next \in 0..MaxNodes
  /\ consumed \subseteq DOMAIN old
  /\ \A e \in diffs :
       /\ e = Entry(e.status, e.old, e.new)
       /\ e.status \in {"unchanged", "moved", "modified", "added", "deleted"}
       /\ e.old \in DOMAIN old \cup {NoPos}
       /\ e.new \in DOMAIN new \cup {NoPos}

Init ==
  /\ old \in Trees
  /\ new \in Trees
  /\ phase = "hash"
  /\ next = 0
  /\ consumed = {}
  /\ diffs = {}
  /\ report = <<>>

-----------------------------------------------------------------------------
Distance(p, q) == IF p < q THEN q - p ELSE p - q

\* Seeded fault: best_distance starts at the tolerance, not above it.
CandidatesExclusive(p) ==
  {q \in DOMAIN old \ consumed : old[q] = new[p] /\ Distance(q, p) < Tolerance}

\* Old nodes that find_best_match considers for the new node at p.
Candidates(p) ==
  {q \in DOMAIN old \ consumed : old[q] = new[p] /\ Distance(q, p) <= Tolerance}

\* Seeded fault: best_distance is not updated, so the last candidate wins.
IsLastMatch(p, q) ==
  /\ q \in Candidates(p)
  /\ \A r \in Candidates(p) : r <= q

\* find_best_match returns the closest one; the bucket is sorted and the
\* comparison strict, so of two at the same distance the lower position wins.
IsBestMatch(p, q) ==
  /\ q \in Candidates(p)
  /\ \A r \in Candidates(p) :
       \/ Distance(q, p) < Distance(r, p)
       \/ Distance(q, p) = Distance(r, p) /\ q <= r

\* Seeded fault: every match within the tolerance counts as unchanged.
MatchStatusByTolerance(p, q) ==
  IF Distance(q, p) < Tolerance THEN "unchanged" ELSE "moved"

MatchStatus(p, q) == IF Distance(q, p) = 0 THEN "unchanged" ELSE "moved"

\* Seeded fault: index.consume is not called after a match.
ConsumeNothing(q) == consumed' = consumed

Consume(q) == consumed' = consumed \cup {q}

\* Phase 1, one new node: matched by hash, or left for phase 2.
MatchByHash ==
  /\ phase = "hash"
  /\ next \in DOMAIN new
  /\ \/ \E q \in DOMAIN old :
          /\ IsBestMatch(next, q)
          /\ Consume(q)
          /\ diffs' = diffs \cup {Entry(MatchStatus(next, q), q, next)}
     \/ Candidates(next) = {} /\ UNCHANGED <<consumed, diffs>>
  /\ next' = next + 1
  /\ UNCHANGED <<old, new, phase, report>>

EndOfPhase1 ==
  /\ phase = "hash"
  /\ next \notin DOMAIN new
  /\ phase' = "position"
  /\ UNCHANGED <<old, new, next, consumed, diffs, report>>

UnmatchedNew == {p \in DOMAIN new : \A e \in diffs : e.new # p}

UnmatchedOld == DOMAIN old \ consumed

PositionalEntry(p) ==
  IF p \in UnmatchedOld THEN Entry("modified", p, p) ELSE Entry("added", NoPos, p)

\* Phase 2: an unmatched new node modifies the unmatched old node in its place.
MatchByPosition ==
  /\ phase = "position"
  /\ diffs' = diffs \cup {PositionalEntry(p) : p \in UnmatchedNew}
  /\ phase' = "deleted"
  /\ UNCHANGED <<old, new, next, consumed, report>>

\* Unmatched old nodes that phase 2 did not use (consumed_old_positions).
Leftover == {q \in UnmatchedOld : Entry("modified", q, q) \notin diffs}

\* Seeded fault: the two parts of the sort key are swapped.
SortsBeforeByPosition(d, e) ==
  LET place(x) == IF x.status = "deleted" THEN x.old ELSE x.new
  IN  \/ place(d) < place(e)
      \/ place(d) = place(e) /\ d.status # "deleted" /\ e.status = "deleted"

\* The lexicographic order of _sort_key: deleted entries last.
SortsBefore(d, e) ==
  IF d.status = "deleted"
    THEN e.status = "deleted" /\ d.old < e.old
    ELSE e.status = "deleted" \/ d.new < e.new

Sorted(entries) ==
  [i \in 1..Cardinality(entries) |->
     CHOOSE e \in entries :
       Cardinality({d \in entries : SortsBefore(d, e)}) = i - 1]

\* Phase 3, the sort, and the return.
CollectDeleted ==
  /\ phase = "deleted"
  /\ diffs' = diffs \cup {Entry("deleted", q, NoPos) : q \in Leftover}
  /\ report' = Sorted(diffs')
  /\ phase' = "done"
  /\ UNCHANGED <<old, new, next, consumed>>

Returned == phase = "done" /\ UNCHANGED vars

Next == MatchByHash \/ EndOfPhase1 \/ MatchByPosition \/ CollectDeleted \/ Returned

Spec == Init /\ [][Next]_vars

-----------------------------------------------------------------------------
(* What the caller of diff_versions relies on.                             *)

OnlyOne(entries) == \E e \in entries : entries = {e}

\* Every node of either version is accounted for by exactly one entry: no old
\* node answers for two new ones, none is both matched and deleted, none is
\* lost (the docstring of diff_versions; HashPositionIndex.consume).
EveryNodeReportedOnce ==
  phase = "done" =>
    /\ \A p \in DOMAIN new : OnlyOne({e \in diffs : e.new = p})
    /\ \A q \in DOMAIN old : OnlyOne({e \in diffs : e.old = q})

StatusHolds(e) ==
  CASE e.status = "unchanged" -> e.old = e.new /\ old[e.old] = new[e.new]
    [] e.status = "moved"     -> /\ old[e.old] = new[e.new]
                                 /\ Distance(e.old, e.new) \in 1..Tolerance
    [] e.status = "modified"  -> e.old = e.new /\ old[e.old] # new[e.new]
    [] e.status = "added"     -> e.old = NoPos
    [] e.status = "deleted"   -> e.new = NoPos

\* Each status says what is true of the two nodes.  That MODIFIED implies a
\* different hash is nowhere checked in the code: it rests on phase 1 having
\* left no equal pair in the same place.
StatusesAreTrue == \A e \in diffs : StatusHolds(e)

\* The greedy pass misses nothing: content reported as modified or added was
\* not available, unmatched and within the tolerance, among what is reported
\* as modified or deleted.
NoMissedMatch ==
  phase = "done" =>
    \A d, e \in diffs :
      d.status \in {"added", "modified"} /\ e.status \in {"modified", "deleted"} =>
        old[e.old] # new[d.new] \/ Distance(e.old, d.new) > Tolerance

\* Uploading the same content again reports nothing but UNCHANGED, repeated
\* paragraphs and all ("Identical versions (re-upload)", differ.py:51).
ReuploadIsUnchanged ==
  old = new => \A e \in diffs : e.status = "unchanged"

\* The two versions agree up to position p.
AgreeUpTo(p) ==
  p \in DOMAIN old \cap DOMAIN new /\ \A i \in 0..p : old[i] = new[i]

\* An edit does not disturb what stands before it: as far as the two versions
\* agree from the beginning, every node is matched with itself, though the same
\* content may occur again anywhere.  Appending a section reports additions only.
CommonPrefixIsUnchanged ==
  \A p \in 0..(next - 1) : AgreeUpTo(p) => Entry("unchanged", p, p) \in diffs

\* The report reads like the new version from front to back, then lists the
\* deletions in the old version's order (differ.py: the final sort).
ReportInReadingOrder ==
  phase = "done" =>
    \A i \in DOMAIN report :
      IF i - 1 \in DOMAIN new THEN report[i].new = i - 1
      ELSE /\ report[i].status = "deleted"
           /\ i > 1 /\ report[i - 1].status = "deleted" =>
                report[i - 1].old < report[i].old

(* The inductive invariant behind them.                                    *)

Matched(e) == e.status \in {"unchanged", "moved"}

\* Phase 1 goes through the new version from front to back; entries of the
\* later phases come later.
PhasesInOrder ==
  /\ \A p \in 0..(next - 1) : p \in DOMAIN new
  /\ phase # "hash" => next \notin DOMAIN new
  /\ phase \in {"hash", "position"} => \A e \in diffs : Matched(e)
  /\ phase # "done" => \A e \in diffs : e.status # "deleted"

\* Consumed positions are those of the matched entries and of no other.
ConsumedIsMatched ==
  /\ \A e \in diffs : Matched(e) => e.old \in consumed /\ e.new \in 0..(next - 1)
  /\ \A e \in diffs : ~Matched(e) => e.old \notin consumed
  /\ \A q \in consumed : \E e \in diffs : Matched(e) /\ e.old = q

EntryShapes ==
  \A e \in diffs :
    /\ e.status # "added" => e.old \in DOMAIN old
    /\ e.status # "deleted" => e.new \in DOMAIN new

\* No two entries share a node.
EntriesApart ==
  \A d, e \in diffs :
    /\ d.new = e.new /\ d.new # NoPos => d = e
    /\ d.old = e.old /\ d.old # NoPos => d = e

\* After phase 2 every new node has its entry, after phase 3 every old node.
EntriesComplete ==
  /\ phase \in {"deleted", "done"} => \A p \in DOMAIN new : \E e \in diffs : e.new = p
  /\ phase = "done" => \A q \in DOMAIN old : \E e \in diffs : e.old = q

\* What phase 1 passed by had no candidate, and gets none later.
PassedByForGood ==
  \A p \in 0..(next - 1) :
    (\A e \in diffs : e.new = p => ~Matched(e)) =>
      \A q \in UnmatchedOld : old[q] # new[p] \/ Distance(q, p) > Tolerance

\* Equal versions: every node passed was matched with itself.
EqualNodesTakeEachOther ==
  old = new => \A p \in 0..(next - 1) : Entry("unchanged", p, p) \in diffs

IInv ==
  /\ TypeOK /\ PhasesInOrder /\ ConsumedIsMatched /\ EntryShapes /\ EntriesApart
  /\ EntriesComplete /\ PassedByForGood /\ EqualNodesTakeEachOther
  /\ StatusesAreTrue /\ ReuploadIsUnchanged
=============================================================================
