------------------------- MODULE DiffEngine_proofs -------------------------
(***************************************************************************)
(* Theorems of DiffEngine, for versions of any bounded size, any contents  *)
(* and any tolerance.                                                      *)
(***************************************************************************)
EXTENDS DiffEngine, FiniteSetTheorems, TLAPS

USE DiffAssumption

\* The positions of a version are 0, 1, ..., up to some bound.
LEMMA TreeDomain ==
  ASSUME NEW t \in Trees
  PROVE  \E n \in 0..MaxNodes : DOMAIN t = 0..(n - 1)
BY DEF Trees

\* Positions are numbers, and no number is NoPos.
LEMMA Positions ==
  ASSUME TypeOK
  PROVE  /\ DOMAIN old \subseteq Nat
         /\ DOMAIN new \subseteq Nat
         /\ NoPos \notin DOMAIN old /\ NoPos \notin DOMAIN new
         /\ \A p \in DOMAIN new : p + 1 \in 0..MaxNodes
         /\ next \in Nat
BY TreeDomain DEF TypeOK

LEMMA InitIInv == Init => IInv
BY DEF Init, IInv, TypeOK, PhasesInOrder, ConsumedIsMatched, EntryShapes,
       EntriesApart, EntriesComplete, PassedByForGood, EqualNodesTakeEachOther,
       StatusesAreTrue, ReuploadIsUnchanged

-----------------------------------------------------------------------------
(* Phase 1.                                                                *)

\* A new node that finds a match.
LEMMA MatchFound ==
  ASSUME IInv, MatchByHash,
         NEW q \in DOMAIN old, IsBestMatch(next, q),
         consumed' = consumed \cup {q},
         diffs' = diffs \cup {Entry(MatchStatus(next, q), q, next)}
  PROVE  IInv'
<1> DEFINE e0 == Entry(MatchStatus(next, q), q, next)
<1>0. /\ phase = "hash" /\ phase' = phase
      /\ next \in DOMAIN new /\ next' = next + 1
      /\ old' = old /\ new' = new
      /\ TypeOK
  BY DEF MatchByHash, IInv
<1>p. /\ DOMAIN old \subseteq Nat /\ DOMAIN new \subseteq Nat
      /\ NoPos \notin DOMAIN old /\ NoPos \notin DOMAIN new
      /\ next \in Nat /\ next + 1 \in 0..MaxNodes
  BY <1>0, Positions
<1>q. /\ q \notin consumed /\ q \in Nat
      /\ old[q] = new[next] /\ Distance(q, next) <= Tolerance
      /\ Distance(q, next) \in Nat
      /\ Distance(q, next) = 0 => q = next
  BY <1>p DEF IsBestMatch, Candidates, Distance
<1>e. /\ e0.status \in {"unchanged", "moved"} /\ e0.old = q /\ e0.new = next
      /\ e0 = Entry(e0.status, e0.old, e0.new)
      /\ e0.status = "unchanged" => q = next
      /\ e0.status = "moved" => Distance(q, next) \in 1..Tolerance
      /\ q = next => e0 = Entry("unchanged", next, next)
  BY <1>p, <1>q DEF Entry, MatchStatus, Distance
<1>m. /\ \A e \in diffs : Matched(e)
      /\ \A e \in diffs : e.old \in consumed /\ e.new \in 0..(next - 1)
  BY <1>0 DEF IInv, PhasesInOrder, ConsumedIsMatched
<1>d. diffs' = diffs \cup {e0}
  OBVIOUS
<1> HIDE DEF e0
<1>1. TypeOK'
  BY <1>0, <1>p, <1>e, <1>d DEF TypeOK
<1>2. PhasesInOrder'
  BY <1>0, <1>p, <1>e, <1>d DEF IInv, PhasesInOrder, Matched
<1>3. ConsumedIsMatched'
  BY <1>0, <1>p, <1>e, <1>d, <1>m DEF IInv, ConsumedIsMatched, Matched
<1>4. EntryShapes'
  BY <1>0, <1>e, <1>d DEF IInv, EntryShapes
<1>5. EntriesApart'
  BY <1>0, <1>p, <1>q, <1>e, <1>d, <1>m DEF IInv, EntriesApart
<1>6. EntriesComplete'
  BY <1>0 DEF EntriesComplete
<1>7. PassedByForGood'
  BY <1>0, <1>p, <1>e, <1>d DEF IInv, PassedByForGood, UnmatchedOld, Matched
<1>8. StatusesAreTrue'
  BY <1>0, <1>q, <1>e, <1>d DEF IInv, StatusesAreTrue, StatusHolds
<1>9. EqualNodesTakeEachOther' /\ ReuploadIsUnchanged'
  <2> SUFFICES ASSUME old = new
               PROVE  e0 = Entry("unchanged", next, next)
    BY <1>0, <1>p, <1>d
    DEF IInv, EqualNodesTakeEachOther, ReuploadIsUnchanged, Entry
  <2>1. next \notin consumed
    <3> SUFFICES ASSUME next \in consumed PROVE FALSE
      OBVIOUS
    <3>1. PICK e \in diffs : e.old = next
      BY DEF IInv, ConsumedIsMatched
    <3>2. e.status = "unchanged" /\ e.new = next
      BY <3>1 DEF IInv, ReuploadIsUnchanged, StatusesAreTrue, StatusHolds
    <3>3. QED
      BY <1>m, <1>p, <3>2
  <2>2. next \in Candidates(next) /\ Distance(next, next) = 0
    BY <1>0, <1>p, <2>1 DEF Candidates, Distance
  <2>3. q = next
    BY <1>p, <1>q, <2>2 DEF IsBestMatch
  <2>4. QED
    BY <1>e, <2>3
<1>10. QED
  BY <1>1, <1>2, <1>3, <1>4, <1>5, <1>6, <1>7, <1>8, <1>9 DEF IInv

\* A new node that finds none.
LEMMA MatchNotFound ==
  ASSUME IInv, MatchByHash, Candidates(next) = {}, UNCHANGED <<consumed, diffs>>
  PROVE  IInv'
<1>0. /\ phase = "hash" /\ phase' = phase
      /\ next \in DOMAIN new /\ next' = next + 1
      /\ old' = old /\ new' = new
      /\ TypeOK
  BY DEF MatchByHash, IInv
<1>p. /\ DOMAIN old \subseteq Nat /\ DOMAIN new \subseteq Nat
      /\ next \in Nat /\ next + 1 \in 0..MaxNodes
  BY <1>0, Positions
<1>1. TypeOK'
  BY <1>0, <1>p DEF TypeOK
<1>2. PhasesInOrder' /\ ConsumedIsMatched' /\ EntryShapes'
  BY <1>0, <1>p DEF IInv, PhasesInOrder, ConsumedIsMatched, EntryShapes, Matched
<1>3. EntriesApart' /\ EntriesComplete' /\ StatusesAreTrue' /\ ReuploadIsUnchanged'
  BY <1>0 DEF IInv, EntriesApart, EntriesComplete, StatusesAreTrue, StatusHolds,
              ReuploadIsUnchanged
<1>4. PassedByForGood'
  <2>1. \A q \in UnmatchedOld :
           old[q] # new[next] \/ Distance(q, next) > Tolerance
    BY <1>p DEF Candidates, UnmatchedOld, Distance
  <2>2. QED
    BY <1>0, <1>p, <2>1 DEF IInv, PassedByForGood, UnmatchedOld, Matched
<1>5. EqualNodesTakeEachOther'
  <2> SUFFICES ASSUME old = new
               PROVE  FALSE
    BY <1>0 DEF EqualNodesTakeEachOther
  <2>1. PICK e \in diffs : e.old = next
    BY <1>0, <1>p DEF IInv, ConsumedIsMatched, Candidates, Distance
  <2>2. e.status = "unchanged" /\ e.new = next
    BY <2>1 DEF IInv, ReuploadIsUnchanged, StatusesAreTrue, StatusHolds
  <2>3. QED
    BY <1>0, <1>p, <2>2 DEF IInv, PhasesInOrder, ConsumedIsMatched
<1>6. QED
  BY <1>1, <1>2, <1>3, <1>4, <1>5 DEF IInv

-----------------------------------------------------------------------------
(* The later phases.                                                       *)

LEMMA Phase1Ends == IInv /\ EndOfPhase1 => IInv'
<1> SUFFICES ASSUME IInv, EndOfPhase1
             PROVE  IInv'
  OBVIOUS
<1>0. /\ phase = "hash" /\ phase' = "position" /\ next \notin DOMAIN new
      /\ old' = old /\ new' = new /\ next' = next
      /\ consumed' = consumed /\ diffs' = diffs
  BY DEF EndOfPhase1
<1>1. TypeOK' /\ PhasesInOrder' /\ EntriesComplete'
  BY <1>0 DEF IInv, TypeOK, PhasesInOrder, EntriesComplete, Matched
<1>2. ConsumedIsMatched' /\ EntryShapes' /\ EntriesApart'
  BY <1>0 DEF IInv, ConsumedIsMatched, EntryShapes, EntriesApart, Matched
<1>3. PassedByForGood' /\ EqualNodesTakeEachOther'
  BY <1>0 DEF IInv, PassedByForGood, EqualNodesTakeEachOther, Matched, UnmatchedOld
<1>4. StatusesAreTrue' /\ ReuploadIsUnchanged'
  BY <1>0 DEF IInv, StatusesAreTrue, StatusHolds, ReuploadIsUnchanged
<1>5. QED
  BY <1>1, <1>2, <1>3, <1>4 DEF IInv

\* When phase 1 is over, all positions of the new version lie behind it.
LEMMA AllPassed ==
  ASSUME TypeOK, PhasesInOrder, phase # "hash"
  PROVE  DOMAIN new = 0..(next - 1)
<1>1. PICK n \in 0..MaxNodes : DOMAIN new = 0..(n - 1)
  BY TreeDomain DEF TypeOK
<1>2. next \in Nat /\ next \notin DOMAIN new /\ \A p \in 0..(next - 1) : p \in DOMAIN new
  BY DEF TypeOK, PhasesInOrder
<1>3. next = n
  <2>1. next >= n
    BY <1>1, <1>2
  <2>2. next > n => n \in DOMAIN new
    BY <1>1, <1>2
  <2>3. QED
    BY <1>1, <1>2, <2>1, <2>2
<1>4. QED
  BY <1>1, <1>3

LEMMA PositionsMatched == IInv /\ MatchByPosition => IInv'
<1> SUFFICES ASSUME IInv, MatchByPosition
             PROVE  IInv'
  OBVIOUS
<1>0. /\ phase = "position" /\ phase' = "deleted"
      /\ diffs' = diffs \cup {PositionalEntry(p) : p \in UnmatchedNew}
      /\ old' = old /\ new' = new /\ next' = next /\ consumed' = consumed
      /\ TypeOK
  BY DEF MatchByPosition, IInv
<1>p. /\ DOMAIN old \subseteq Nat /\ DOMAIN new \subseteq Nat
      /\ NoPos \notin DOMAIN old /\ NoPos \notin DOMAIN new
      /\ next \in Nat
      /\ DOMAIN new = 0..(next - 1)
  BY <1>0, Positions, AllPassed DEF IInv
<1>m. /\ \A e \in diffs : Matched(e) /\ e.old \in consumed
      /\ \A p \in UnmatchedNew : p \in DOMAIN new /\ \A e \in diffs : e.new # p
      /\ consumed \subseteq DOMAIN old
  BY <1>0 DEF IInv, PhasesInOrder, ConsumedIsMatched, UnmatchedNew, TypeOK
<1>e. \A p \in UnmatchedNew :
        LET e == PositionalEntry(p) IN
        /\ e = Entry(e.status, e.old, e.new)
        /\ e.new = p /\ ~Matched(e)
        /\ \/ /\ e.status = "modified" /\ e.old = p
              /\ p \in DOMAIN old /\ p \notin consumed
           \/ e.status = "added" /\ e.old = NoPos
  BY DEF PositionalEntry, Entry, Matched, UnmatchedOld
<1>d. \A e \in diffs' : e \in diffs \/ \E p \in UnmatchedNew : e = PositionalEntry(p)
  BY <1>0
<1> HIDE DEF PositionalEntry, UnmatchedNew
<1>1. TypeOK'
  BY <1>0, <1>m, <1>e, <1>d DEF TypeOK
<1>2. PhasesInOrder'
  BY <1>0, <1>e, <1>d DEF IInv, PhasesInOrder
<1>3. ConsumedIsMatched'
  BY <1>0, <1>p, <1>m, <1>e, <1>d DEF IInv, ConsumedIsMatched, Matched, TypeOK
<1>4. EntryShapes'
  BY <1>0, <1>m, <1>e, <1>d DEF IInv, EntryShapes
<1>5. EntriesApart'
  BY <1>0, <1>p, <1>m, <1>e, <1>d DEF IInv, EntriesApart
<1>6. EntriesComplete'
  <2>1. ASSUME NEW p \in DOMAIN new
        PROVE  \E e \in diffs' : e.new = p
    <3>1. CASE p \in UnmatchedNew
      BY <1>0, <1>e, <3>1
    <3>2. CASE p \notin UnmatchedNew
      BY <1>0, <3>2 DEF UnmatchedNew
    <3>3. QED
      BY <3>1, <3>2
  <2>2. QED
    BY <1>0, <2>1 DEF EntriesComplete
<1>7. PassedByForGood'
  BY <1>0, <1>p, <1>e, <1>d DEF IInv, PassedByForGood, UnmatchedOld, Matched
<1>8. StatusesAreTrue'
  <2> SUFFICES ASSUME NEW p \in UnmatchedNew
               PROVE  StatusHolds(PositionalEntry(p))
    <3>1. \A e \in diffs' : StatusHolds(e)
      BY <1>d DEF IInv, StatusesAreTrue
    <3>2. QED
      BY <1>0, <3>1 DEF StatusesAreTrue, StatusHolds
  <2>1. CASE p \in UnmatchedOld
    <3>1. \/ old[p] # new[p]
          \/ Distance(p, p) > Tolerance
      BY <1>m, <1>p, <2>1 DEF IInv, PassedByForGood
    <3>2. old[p] # new[p]
      BY <1>m, <1>p, <3>1 DEF Distance
    <3>3. QED
      BY <2>1, <3>2 DEF StatusHolds, PositionalEntry, Entry
  <2>2. CASE p \notin UnmatchedOld
    BY <2>2 DEF StatusHolds, PositionalEntry, Entry
  <2>3. QED
    BY <2>1, <2>2
<1>9. EqualNodesTakeEachOther' /\ ReuploadIsUnchanged'
  <2> SUFFICES ASSUME old = new
               PROVE  diffs' = diffs
    BY <1>0 DEF IInv, EqualNodesTakeEachOther, ReuploadIsUnchanged
  <2>1. UnmatchedNew = {}
    <3> SUFFICES ASSUME NEW p \in UnmatchedNew PROVE FALSE
      OBVIOUS
    <3>1. Entry("unchanged", p, p) \in diffs
      BY <1>p, <1>m DEF IInv, EqualNodesTakeEachOther
    <3>2. QED
      BY <1>m, <3>1 DEF Entry
  <2>2. QED
    BY <1>0, <2>1
<1>10. QED
  BY <1>1, <1>2, <1>3, <1>4, <1>5, <1>6, <1>7, <1>8, <1>9 DEF IInv

LEMMA RestDeleted == IInv /\ CollectDeleted => IInv'
<1> SUFFICES ASSUME IInv, CollectDeleted
             PROVE  IInv'
  OBVIOUS
<1>0. /\ phase = "deleted" /\ phase' = "done"
      /\ diffs' = diffs \cup {Entry("deleted", q, NoPos) : q \in Leftover}
      /\ old' = old /\ new' = new /\ next' = next /\ consumed' = consumed
      /\ TypeOK
  BY DEF CollectDeleted, IInv
<1>p. /\ DOMAIN old \subseteq Nat /\ DOMAIN new \subseteq Nat
      /\ NoPos \notin DOMAIN old /\ NoPos \notin DOMAIN new
      /\ next \in Nat
      /\ DOMAIN new = 0..(next - 1)
  BY <1>0, Positions, AllPassed DEF IInv
<1>n. \A e \in diffs : /\ e = Entry(e.status, e.old, e.new)
                       /\ e.status \in {"unchanged", "moved", "modified", "added"}
                       /\ e.new \in DOMAIN new
                       /\ e.old \in DOMAIN old \cup {NoPos}
  BY <1>0 DEF IInv, TypeOK, PhasesInOrder, EntryShapes
<1>l. \A q \in Leftover : /\ q \in DOMAIN old /\ q \notin consumed
                          /\ \A e \in diffs : e.old # q
  <2> SUFFICES ASSUME NEW q \in Leftover, NEW e \in diffs, e.old = q
               PROVE  FALSE
    BY DEF Leftover, UnmatchedOld
  <2>1. q \in DOMAIN old /\ q \notin consumed /\ Entry("modified", q, q) \notin diffs
    BY DEF Leftover, UnmatchedOld
  <2>2. e.status \in {"modified", "added"}
    BY <1>n, <2>1 DEF IInv, ConsumedIsMatched, Matched
  <2>3. CASE e.status = "modified"
    BY <1>n, <2>1, <2>3 DEF IInv, StatusesAreTrue, StatusHolds
  <2>4. CASE e.status = "added"
    BY <1>p, <2>1, <2>4 DEF IInv, StatusesAreTrue, StatusHolds
  <2>5. QED
    BY <2>2, <2>3, <2>4
<1>d. \A e \in diffs' :
        \/ e \in diffs
        \/ \E q \in Leftover : /\ e = Entry("deleted", q, NoPos)
                               /\ e.status = "deleted" /\ e.old = q /\ e.new = NoPos
  BY <1>0 DEF Entry
<1>1. TypeOK'
  BY <1>0, <1>l, <1>d DEF TypeOK
<1>2. PhasesInOrder'
  BY <1>0 DEF IInv, PhasesInOrder
<1>3. ConsumedIsMatched'
  BY <1>0, <1>l, <1>d DEF IInv, ConsumedIsMatched, Matched
<1>4. EntryShapes'
  BY <1>0, <1>l, <1>d DEF IInv, EntryShapes
<1>5. EntriesApart'
  BY <1>0, <1>p, <1>n, <1>l, <1>d DEF IInv, EntriesApart
<1>6. EntriesComplete'
  <2>1. ASSUME NEW q \in DOMAIN old
        PROVE  \E e \in diffs' : e.old = q
    <3>1. CASE q \in consumed
      BY <1>0, <3>1 DEF IInv, ConsumedIsMatched
    <3>2. CASE Entry("modified", q, q) \in diffs
      BY <1>0, <3>2 DEF Entry
    <3>3. CASE q \in Leftover
      <4>1. Entry("deleted", q, NoPos) \in diffs'
        BY <1>0, <3>3
      <4>2. QED
        BY <4>1 DEF Entry
    <3>4. QED
      BY <3>1, <3>2, <3>3 DEF Leftover, UnmatchedOld
  <2>2. \A p \in DOMAIN new : \E e \in diffs' : e.new = p
    BY <1>0 DEF IInv, EntriesComplete
  <2>3. QED
    BY <1>0, <2>1, <2>2 DEF EntriesComplete
<1>7. PassedByForGood'
  BY <1>0 DEF IInv, PassedByForGood, UnmatchedOld, Matched
<1>8. StatusesAreTrue'
  BY <1>0, <1>d DEF IInv, StatusesAreTrue, StatusHolds
<1>9. EqualNodesTakeEachOther' /\ ReuploadIsUnchanged'
  <2> SUFFICES ASSUME old = new
               PROVE  diffs' = diffs
    BY <1>0 DEF IInv, EqualNodesTakeEachOther, ReuploadIsUnchanged
  <2>1. ASSUME NEW q \in DOMAIN old
        PROVE  \E e \in diffs : e.old = q
    <3>1. Entry("unchanged", q, q) \in diffs
      BY <1>p DEF IInv, EqualNodesTakeEachOther
    <3>2. QED
      BY <3>1 DEF Entry
  <2>2. Leftover = {}
    BY <1>l, <2>1
  <2>3. QED
    BY <1>0, <2>2
<1>10. QED
  BY <1>1, <1>2, <1>3, <1>4, <1>5, <1>6, <1>7, <1>8, <1>9 DEF IInv

LEMMA StepKeepsIInv == IInv /\ [Next]_vars => IInv'
<1> SUFFICES ASSUME IInv, [Next]_vars
             PROVE  IInv'
  OBVIOUS
<1>1. CASE MatchByHash
  <2>1. \/ \E q \in DOMAIN old :
             /\ IsBestMatch(next, q)
             /\ consumed' = consumed \cup {q}
             /\ diffs' = diffs \cup {Entry(MatchStatus(next, q), q, next)}
        \/ Candidates(next) = {} /\ UNCHANGED <<consumed, diffs>>
    BY <1>1 DEF MatchByHash, Consume
  <2>2. QED
    BY <1>1, <2>1, MatchFound, MatchNotFound
<1>2. CASE UNCHANGED vars
  BY <1>2 DEF vars, IInv, TypeOK, PhasesInOrder, ConsumedIsMatched, EntryShapes,
       EntriesApart, EntriesComplete, PassedByForGood, EqualNodesTakeEachOther,
       StatusesAreTrue, StatusHolds, ReuploadIsUnchanged, Matched, UnmatchedOld
<1>3. QED
  BY <1>1, <1>2, Phase1Ends, PositionsMatched, RestDeleted DEF Next, Returned

-----------------------------------------------------------------------------
(* Theorems.                                                               *)

\* The inductive invariant holds throughout diff_versions.
THEOREM Invariance == Spec => []IInv
BY InitIInv, StepKeepsIInv, PTL DEF Spec

\* diff_versions keeps its variables in their types.
THEOREM TypeCorrect == Spec => []TypeOK
<1>1. IInv => TypeOK
  BY DEF IInv
<1>2. QED
  BY Invariance, <1>1, PTL

\* Each status diff_versions reports is true of the two nodes, MODIFIED
\* included, whose hashes no line of phase 2 compares.
THEOREM StatusesCorrect == Spec => []StatusesAreTrue
<1>1. IInv => StatusesAreTrue
  BY DEF IInv
<1>2. QED
  BY Invariance, <1>1, PTL

\* A version uploaded again unchanged is reported UNCHANGED node by node.
THEOREM ReuploadQuiet == Spec => []ReuploadIsUnchanged
<1>1. IInv => ReuploadIsUnchanged
  BY DEF IInv
<1>2. QED
  BY Invariance, <1>1, PTL

\* The returned entries cover both versions, every node once.
THEOREM Coverage == Spec => []EveryNodeReportedOnce
<1>1. IInv => EveryNodeReportedOnce
  <2> SUFFICES ASSUME IInv, phase = "done"
               PROVE  /\ \A p \in DOMAIN new : OnlyOne({e \in diffs : e.new = p})
                      /\ \A q \in DOMAIN old : OnlyOne({e \in diffs : e.old = q})
    BY DEF EveryNodeReportedOnce
  <2>1. NoPos \notin DOMAIN old /\ NoPos \notin DOMAIN new
    BY Positions DEF IInv
  <2>2. ASSUME NEW p \in DOMAIN new
        PROVE  OnlyOne({e \in diffs : e.new = p})
    <3>1. PICK e \in diffs : e.new = p
      BY DEF IInv, EntriesComplete
    <3>2. {d \in diffs : d.new = p} = {e}
      BY <2>1, <3>1 DEF IInv, EntriesApart
    <3>3. QED
      BY <3>2 DEF OnlyOne
  <2>3. ASSUME NEW q \in DOMAIN old
        PROVE  OnlyOne({e \in diffs : e.old = q})
    <3>1. PICK e \in diffs : e.old = q
      BY DEF IInv, EntriesComplete
    <3>2. {d \in diffs : d.old = q} = {e}
      BY <2>1, <3>1 DEF IInv, EntriesApart
    <3>3. QED
      BY <3>2 DEF OnlyOne
  <2>4. QED
    BY <2>2, <2>3
<1>2. QED
  BY Invariance, <1>1, PTL

\* A new node that ends a common prefix finds its twin in place: whoever took
\* it earlier would be a node of the prefix, and that one took its own.
LEMMA PrefixStep ==
  ASSUME IInv, CommonPrefixIsUnchanged, [Next]_vars
  PROVE  CommonPrefixIsUnchanged'
<1>0. /\ old' = old /\ new' = new /\ diffs \subseteq diffs'
      /\ next' = next \/ MatchByHash
  BY DEF Next, MatchByHash, EndOfPhase1, MatchByPosition, CollectDeleted, Returned, vars
<1>1. CASE next' = next
  BY <1>0, <1>1 DEF CommonPrefixIsUnchanged, AgreeUpTo
<1>2. CASE MatchByHash
  <2>0. next' = next + 1 /\ phase = "hash" /\ next \in Nat
    BY <1>2, Positions DEF MatchByHash, IInv
  <2> SUFFICES ASSUME AgreeUpTo(next)
               PROVE  Entry("unchanged", next, next) \in diffs'
    BY <1>0, <2>0 DEF CommonPrefixIsUnchanged, AgreeUpTo
  <2>1. /\ next \in DOMAIN old /\ next \in DOMAIN new /\ old[next] = new[next]
        /\ \A p \in 0..(next - 1) : Entry("unchanged", p, p) \in diffs
    <3>1. /\ next \in DOMAIN old /\ next \in DOMAIN new
          /\ \A i \in 0..next : old[i] = new[i]
      BY DEF AgreeUpTo
    <3>2. PICK m, n \in Nat : DOMAIN old = 0..(m - 1) /\ DOMAIN new = 0..(n - 1)
      BY TreeDomain DEF IInv, TypeOK
    <3>3. \A p \in 0..(next - 1) : AgreeUpTo(p)
      BY <2>0, <3>1, <3>2 DEF AgreeUpTo
    <3>4. QED
      BY <2>0, <3>1, <3>3 DEF CommonPrefixIsUnchanged
  <2>2. next \notin consumed
    <3> SUFFICES ASSUME next \in consumed PROVE FALSE
      OBVIOUS
    <3>1. PICK e \in diffs : Matched(e) /\ e.old = next
      BY DEF IInv, ConsumedIsMatched
    <3>2. e.new \in 0..(next - 1) /\ e.new # NoPos
      BY <2>0, <3>1 DEF IInv, ConsumedIsMatched
    <3>3. e = Entry("unchanged", e.new, e.new)
      BY <2>1, <3>1, <3>2 DEF IInv, EntriesApart, Entry
    <3>4. e.old = e.new
      BY <3>3 DEF Entry
    <3>5. QED
      BY <2>0, <3>1, <3>2, <3>4
  <2>3. next \in Candidates(next) /\ Distance(next, next) = 0
    BY <2>0, <2>1, <2>2 DEF Candidates, Distance
  <2>4. PICK q \in DOMAIN old :
           /\ IsBestMatch(next, q)
           /\ diffs' = diffs \cup {Entry(MatchStatus(next, q), q, next)}
    BY <1>2, <2>3 DEF MatchByHash
  <2>5. q = next
    BY <2>0, <2>3, <2>4, Positions DEF IsBestMatch, Distance, IInv
  <2>6. QED
    BY <2>3, <2>4, <2>5 DEF MatchStatus
<1>3. QED
  BY <1>0, <1>1, <1>2

\* However the versions go on, what they have in common at the beginning is
\* reported UNCHANGED in place: an edit never disturbs the diff before it.
THEOREM PrefixQuiet == Spec => []CommonPrefixIsUnchanged
<1>1. Init => CommonPrefixIsUnchanged
  BY DEF Init, CommonPrefixIsUnchanged
<1>2. IInv /\ CommonPrefixIsUnchanged /\ [Next]_vars => CommonPrefixIsUnchanged'
  BY PrefixStep
<1>3. QED
  BY <1>1, <1>2, Invariance, PTL DEF Spec

\* The new version is the old one with something appended.
Appended == DOMAIN old \subseteq DOMAIN new /\ \A p \in DOMAIN old : old[p] = new[p]

\* Appending to a version is reported as just that: the old nodes UNCHANGED in
\* place, the appended ones ADDED, even if they repeat what was there.
AppendingOnlyAdds ==
  phase = "done" /\ Appended =>
    diffs = {Entry("unchanged", p, p) : p \in DOMAIN old} \cup
            {Entry("added", NoPos, p) : p \in DOMAIN new \ DOMAIN old}

\* The finished diff of a version with an appendix.
THEOREM AppendixAdded == Spec => []AppendingOnlyAdds
<1>1. IInv /\ CommonPrefixIsUnchanged => AppendingOnlyAdds
  <2> SUFFICES ASSUME IInv, CommonPrefixIsUnchanged, phase = "done", Appended
               PROVE  diffs = {Entry("unchanged", p, p) : p \in DOMAIN old} \cup
                              {Entry("added", NoPos, p) : p \in DOMAIN new \ DOMAIN old}
    BY DEF AppendingOnlyAdds
  <2>0. /\ DOMAIN new = 0..(next - 1) /\ next \in Nat
        /\ DOMAIN old \subseteq Nat /\ DOMAIN new \subseteq Nat
        /\ NoPos \notin DOMAIN old /\ NoPos \notin DOMAIN new
    BY Positions, AllPassed DEF IInv
  <2>1. PICK n \in Nat : DOMAIN old = 0..(n - 1)
    BY TreeDomain DEF IInv, TypeOK
  <2>2. \A p \in DOMAIN old : AgreeUpTo(p)
    BY <2>0, <2>1 DEF Appended, AgreeUpTo
  <2>3. \A p \in DOMAIN old : Entry("unchanged", p, p) \in diffs
    BY <2>0, <2>2 DEF Appended, CommonPrefixIsUnchanged
  <2>4. ASSUME NEW e \in diffs
        PROVE  \/ \E p \in DOMAIN old : e = Entry("unchanged", p, p)
               \/ \E p \in DOMAIN new \ DOMAIN old : e = Entry("added", NoPos, p)
    <3>0. /\ e = Entry(e.status, e.old, e.new)
          /\ e.status \in {"unchanged", "moved", "modified", "added", "deleted"}
          /\ e.old \in DOMAIN old \cup {NoPos} /\ e.new \in DOMAIN new \cup {NoPos}
      BY DEF IInv, TypeOK
    <3>1. CASE e.old \in DOMAIN old
      <4>1. Entry("unchanged", e.old, e.old) \in diffs
        BY <2>3, <3>1
      <4>2. e = Entry("unchanged", e.old, e.old)
        BY <2>0, <3>1, <4>1 DEF IInv, EntriesApart, Entry
      <4>3. QED
        BY <3>1, <4>2
    <3>2. CASE e.old \notin DOMAIN old
      <4>1. e.status = "added" /\ e.new \in DOMAIN new /\ e.old = NoPos
        BY <3>0, <3>2 DEF IInv, EntryShapes
      <4>2. e.new \notin DOMAIN old
        <5> SUFFICES ASSUME e.new \in DOMAIN old PROVE FALSE
          OBVIOUS
        <5>1. Entry("unchanged", e.new, e.new) \in diffs
          BY <2>3
        <5>2. e = Entry("unchanged", e.new, e.new)
          BY <2>0, <4>1, <5>1 DEF IInv, EntriesApart, Entry
        <5>3. QED
          BY <4>1, <5>2 DEF Entry
      <4>3. QED
        BY <3>0, <4>1, <4>2
    <3>3. QED
      BY <3>1, <3>2
  <2>5. ASSUME NEW p \in DOMAIN new \ DOMAIN old
        PROVE  Entry("added", NoPos, p) \in diffs
    <3>1. PICK e \in diffs : e.new = p
      BY DEF IInv, EntriesComplete
    <3>2. e = Entry("added", NoPos, p)
      BY <2>4, <3>1 DEF Entry
    <3>3. QED
      BY <3>1, <3>2
  <2>6. QED
    BY <2>3, <2>4, <2>5
<1>2. QED
  BY <1>1, Invariance, PrefixQuiet, PTL

\* The greedy pass leaves no pair it could have matched.
THEOREM GreedyIsMaximal == Spec => []NoMissedMatch
<1>1. IInv => NoMissedMatch
  <2> SUFFICES ASSUME IInv, phase = "done",
                      NEW d \in diffs, NEW e \in diffs,
                      d.status \in {"added", "modified"},
                      e.status \in {"modified", "deleted"}
               PROVE  old[e.old] # new[d.new] \/ Distance(e.old, d.new) > Tolerance
    BY DEF NoMissedMatch
  <2>1. d.new \in 0..(next - 1) /\ NoPos \notin DOMAIN new /\ d.new \in DOMAIN new
    BY Positions, AllPassed DEF IInv, EntryShapes
  <2>2. \A c \in diffs : c.new = d.new => c = d
    BY <2>1 DEF IInv, EntriesApart
  <2>3. \A c \in diffs : c.new = d.new => ~Matched(c)
    BY <2>2 DEF Matched
  <2>4. e.old \in UnmatchedOld
    BY DEF IInv, EntryShapes, ConsumedIsMatched, Matched, UnmatchedOld
  <2>5. QED
    BY <2>1, <2>3, <2>4 DEF IInv, PassedByForGood
<1>2. QED
  BY Invariance, <1>1, PTL

\* Content found once in each version, not too far apart, is recognised.
UniqueContentIsFound ==
  phase = "done" =>
    \A p \in DOMAIN new, q \in DOMAIN old :
      /\ new[p] = old[q] /\ Distance(q, p) <= Tolerance
      /\ \A r \in DOMAIN new : new[r] = new[p] => r = p
      /\ \A r \in DOMAIN old : old[r] = old[q] => r = q
      => Entry(MatchStatus(p, q), q, p) \in diffs

\* The order in which phase 1 goes through the nodes matters only to repeated
\* content: a paragraph that occurs once in each version is found whatever
\* happened around it, UNCHANGED in its place, MOVED within the tolerance.
THEOREM UniqueContentFound == Spec => []UniqueContentIsFound
<1>1. IInv /\ NoMissedMatch => UniqueContentIsFound
  <2> SUFFICES ASSUME IInv, NoMissedMatch, phase = "done",
                      NEW p \in DOMAIN new, NEW q \in DOMAIN old,
                      new[p] = old[q], Distance(q, p) <= Tolerance,
                      \A r \in DOMAIN new : new[r] = new[p] => r = p,
                      \A r \in DOMAIN old : old[r] = old[q] => r = q
               PROVE  Entry(MatchStatus(p, q), q, p) \in diffs
    BY DEF UniqueContentIsFound
  <2>0. /\ DOMAIN old \subseteq Nat /\ DOMAIN new \subseteq Nat
        /\ NoPos \notin DOMAIN old /\ NoPos \notin DOMAIN new
    BY Positions DEF IInv
  <2>1. PICK d \in diffs : d.new = p
    BY DEF IInv, EntriesComplete
  <2>2. PICK e \in diffs : e.old = q
    BY DEF IInv, EntriesComplete
  <2>3. /\ d.status \in {"unchanged", "moved", "modified", "added", "deleted"}
        /\ e.status \in {"unchanged", "moved", "modified", "added", "deleted"}
        /\ d = Entry(d.status, d.old, d.new)
        /\ StatusHolds(d) /\ StatusHolds(e)
        /\ d.status # "added" => d.old \in DOMAIN old
        /\ e.status # "deleted" => e.new \in DOMAIN new
    BY DEF IInv, TypeOK, StatusesAreTrue, EntryShapes
  <2>4. d.status # "deleted" /\ e.status # "added"
    BY <2>0, <2>1, <2>2, <2>3 DEF StatusHolds
  <2>5. CASE Matched(d)
    <3>1. d.old \in DOMAIN old /\ old[d.old] = new[p]
      BY <2>1, <2>3, <2>5 DEF Matched, StatusHolds
    <3>2. d.old = q
      BY <3>1
    <3>3. d.status = MatchStatus(p, q)
      <4>1. CASE d.status = "unchanged"
        <5>1. p = q
          BY <2>1, <2>3, <3>2, <4>1 DEF StatusHolds
        <5>2. Distance(q, p) = 0
          BY <2>0, <5>1 DEF Distance
        <5>3. QED
          BY <4>1, <5>2 DEF MatchStatus
      <4>2. CASE d.status = "moved"
        <5>1. Distance(q, p) \in 1..Tolerance
          BY <2>1, <2>3, <3>2, <4>2 DEF StatusHolds
        <5>2. QED
          BY <4>2, <5>1 DEF MatchStatus
      <4>3. QED
        BY <2>5, <4>1, <4>2 DEF Matched
    <3>4. QED
      BY <2>1, <2>3, <3>2, <3>3
  <2>6. CASE ~Matched(d)
    <3>1. ~Matched(e)
      <4> SUFFICES ASSUME Matched(e) PROVE FALSE
        OBVIOUS
      <4>1. e.new \in DOMAIN new /\ new[e.new] = old[q]
        BY <2>2, <2>3 DEF Matched, StatusHolds
      <4>2. e.new = p
        BY <4>1
      <4>3. d = e
        BY <2>0, <2>1, <4>2 DEF IInv, EntriesApart
      <4>4. QED
        BY <2>6, <4>3
    <3>2. d.status \in {"added", "modified"} /\ e.status \in {"modified", "deleted"}
      BY <2>3, <2>4, <2>6, <3>1 DEF Matched
    <3>3. old[q] # new[p] \/ Distance(q, p) > Tolerance
      BY <2>1, <2>2, <3>2 DEF NoMissedMatch
    <3>4. Distance(q, p) \in Nat
      BY <2>0 DEF Distance
    <3>5. QED
      BY <3>3, <3>4
  <2>7. QED
    BY <2>5, <2>6
<1>2. QED
  BY <1>1, Invariance, GreedyIsMaximal, PTL

-----------------------------------------------------------------------------
(* The sort.  Sorted(entries) puts at place i the entry with i - 1 entries *)
(* before it: what is needed is that every such number has its entry.      *)

Before(entries, e) == {d \in entries : SortsBefore(d, e)}

Rank(entries, e) == Cardinality(Before(entries, e))

\* The sort key tells any two entries apart.
TotallyOrdered(entries) ==
  /\ \A e \in entries : ~SortsBefore(e, e)
  /\ \A c, d, e \in entries :
       SortsBefore(c, d) /\ SortsBefore(d, e) => SortsBefore(c, e)
  /\ \A d, e \in entries : d = e \/ SortsBefore(d, e) \/ SortsBefore(e, d)

\* Ranks grow along the order and stay below the number of entries.
LEMMA RanksGrow ==
  ASSUME NEW E, IsFiniteSet(E), TotallyOrdered(E)
  PROVE  /\ \A e \in E : Rank(E, e) \in 0..(Cardinality(E) - 1)
         /\ \A d, e \in E : SortsBefore(d, e) => Rank(E, d) < Rank(E, e)
<1>1. /\ Cardinality(E) \in Nat
      /\ \A e \in E : /\ IsFiniteSet(Before(E, e))
                      /\ Rank(E, e) \in Nat
                      /\ Rank(E, e) <= Cardinality(E)
  BY FS_CardinalityType, FS_Subset DEF Before, Rank
<1>2. ASSUME NEW e \in E
      PROVE  Rank(E, e) \in 0..(Cardinality(E) - 1)
  <2>1. Before(E, e) \in SUBSET E /\ e \notin Before(E, e)
    BY DEF Before, TotallyOrdered
  <2>2. Cardinality(E) # Rank(E, e)
    BY <2>1, FS_Subset DEF Rank
  <2>3. QED
    BY <1>1, <2>2
<1>3. ASSUME NEW d \in E, NEW e \in E, SortsBefore(d, e)
      PROVE  Rank(E, d) < Rank(E, e)
  <2>1. Before(E, d) \in SUBSET Before(E, e)
    BY <1>3 DEF Before, TotallyOrdered
  <2>2. d \in Before(E, e) /\ d \notin Before(E, d)
    BY <1>3 DEF Before, TotallyOrdered
  <2>3. /\ Rank(E, d) <= Rank(E, e)
        /\ Rank(E, e) # Rank(E, d)
    BY <1>1, <2>1, <2>2, FS_Subset DEF Rank
  <2>4. QED
    BY <1>1, <2>3
<1>4. QED
  BY <1>2, <1>3

LEMMA FirstNumbers ==
  ASSUME NEW n \in Nat
  PROVE  IsFiniteSet(0..(n - 1)) /\ Cardinality(0..(n - 1)) = n
<1>1. /\ IsFiniteSet(0..(n - 1))
      /\ Cardinality(0..(n - 1)) = IF 0 > n - 1 THEN 0 ELSE (n - 1) - 0 + 1
  BY FS_Interval
<1>2. QED
  BY <1>1

\* Every number below the number of entries is the rank of one of them: the
\* ranks are that many different numbers.
LEMMA RanksFill ==
  ASSUME NEW E, IsFiniteSet(E), TotallyOrdered(E)
  PROVE  \A k \in 0..(Cardinality(E) - 1) : \E e \in E : Rank(E, e) = k
<1> DEFINE r == [e \in E |-> Rank(E, e)]
           T == 0..(Cardinality(E) - 1)
<1>1. Cardinality(E) \in Nat
  BY FS_CardinalityType
<1>2. IsFiniteSet(T) /\ Cardinality(T) = Cardinality(E)
  BY <1>1, FirstNumbers
<1>3. \A d, e \in E : Rank(E, d) = Rank(E, e) => d = e
  <2> SUFFICES ASSUME NEW d \in E, NEW e \in E, Rank(E, d) = Rank(E, e), d # e
               PROVE  FALSE
    OBVIOUS
  <2>1. SortsBefore(d, e) \/ SortsBefore(e, d)
    BY DEF TotallyOrdered
  <2>2. Rank(E, d) < Rank(E, e) \/ Rank(E, e) < Rank(E, d)
    BY <2>1, RanksGrow
  <2>3. Rank(E, d) \in Int
    BY RanksGrow, <1>1
  <2>4. QED
    BY <2>2, <2>3
<1>4. r \in [E -> T]
  BY RanksGrow
<1>5. r \in Injection(E, T)
  BY <1>3, <1>4 DEF Injection, IsInjective
<1>6. r \in Surjection(E, T)
  <2> HIDE DEF r, T
  <2> QED BY <1>2, <1>5, FS_Injection
<1>7. QED
  BY <1>6 DEF Surjection

\* So each place of the sorted list holds the entry of its rank.
LEMMA SortedByRank ==
  ASSUME NEW E, IsFiniteSet(E), TotallyOrdered(E)
  PROVE  \A i \in 1..Cardinality(E) :
           Sorted(E)[i] \in E /\ Rank(E, Sorted(E)[i]) = i - 1
<1>1. Cardinality(E) \in Nat
  BY FS_CardinalityType
<1>2. ASSUME NEW i \in 1..Cardinality(E)
      PROVE  Sorted(E)[i] \in E /\ Rank(E, Sorted(E)[i]) = i - 1
  <2>1. \E e \in E : Rank(E, e) = i - 1
    BY <1>1, RanksFill
  <2>2. Sorted(E)[i] = CHOOSE e \in E : Rank(E, e) = i - 1
    BY DEF Sorted, Rank, Before
  <2>3. QED
    BY <2>1, <2>2
<1>3. QED
  BY <1>2

-----------------------------------------------------------------------------
(* The report.                                                             *)

\* The list returned is the sorted entries.
ReportIsSorted == phase = "done" => report = Sorted(diffs)

\* What an entry of the finished diff looks like.
LEMMA FinishedEntries ==
  ASSUME IInv, phase = "done"
  PROVE  /\ \A e \in diffs :
              IF e.status = "deleted" THEN e.old \in DOMAIN old /\ e.new = NoPos
                                      ELSE e.new \in DOMAIN new
         /\ \A p \in DOMAIN new : \E e \in diffs : e.new = p /\ e.status # "deleted"
         /\ \A d, e \in diffs : d.new = e.new /\ d.new # NoPos => d = e
         /\ \A d, e \in diffs : d.old = e.old /\ d.old # NoPos => d = e
         /\ DOMAIN old \subseteq Nat /\ DOMAIN new \subseteq Nat
         /\ NoPos \notin DOMAIN old /\ NoPos \notin DOMAIN new
<1>1. /\ DOMAIN old \subseteq Nat /\ DOMAIN new \subseteq Nat
      /\ NoPos \notin DOMAIN old /\ NoPos \notin DOMAIN new
  BY Positions DEF IInv
<1>2. \A e \in diffs :
        IF e.status = "deleted" THEN e.old \in DOMAIN old /\ e.new = NoPos
                                ELSE e.new \in DOMAIN new
  BY DEF IInv, EntryShapes, StatusesAreTrue, StatusHolds
<1>3. \A p \in DOMAIN new : \E e \in diffs : e.new = p
  BY DEF IInv, EntriesComplete
<1>4. QED
  BY <1>1, <1>2, <1>3 DEF IInv, EntriesApart

LEMMA EntriesOrdered == IInv /\ phase = "done" => TotallyOrdered(diffs)
<1> SUFFICES ASSUME IInv, phase = "done"
             PROVE  TotallyOrdered(diffs)
  OBVIOUS
<1>1. QED
  BY FinishedEntries DEF TotallyOrdered, SortsBefore

\* There are no more entries than nodes of the two versions.
LEMMA EntriesFinite == IInv /\ phase = "done" => IsFiniteSet(diffs)
<1> SUFFICES ASSUME IInv, phase = "done"
             PROVE  IsFiniteSet(diffs)
  OBVIOUS
<1> DEFINE f == [e \in diffs |->
                   IF e.status = "deleted" THEN MaxNodes + e.old ELSE e.new]
           T == 0..(MaxNodes + MaxNodes)
<1>1. /\ \A p \in DOMAIN new : p \in Nat /\ p < MaxNodes
      /\ \A q \in DOMAIN old : q \in Nat /\ q < MaxNodes
  BY TreeDomain DEF IInv, TypeOK
<1>2. f \in [diffs -> T]
  BY <1>1, FinishedEntries
<1>3. \A d, e \in diffs : f[d] = f[e] => d = e
  BY <1>1, FinishedEntries
<1>4. f \in Injection(diffs, T)
  BY <1>2, <1>3 DEF Injection, IsInjective
<1>5. IsFiniteSet(T)
  BY FS_Interval
<1>6. QED
  <2> HIDE DEF f, T
  <2> QED BY <1>4, <1>5, FS_Injection

\* Before the entry of the new node at p come those of the p nodes above it;
\* before a deleted entry, those of all new nodes.
LEMMA RanksOfEntries ==
  ASSUME IInv, phase = "done", NEW n \in Nat, DOMAIN new = 0..(n - 1)
  PROVE  \A e \in diffs :
           IF e.status = "deleted" THEN Rank(diffs, e) >= n
                                   ELSE Rank(diffs, e) = e.new
<1>1. ASSUME NEW p \in 0..n
      PROVE  LET S == {d \in diffs : d.status # "deleted" /\ d.new < p}
             IN  IsFiniteSet(S) /\ Cardinality(S) = p
  <2> DEFINE S == {d \in diffs : d.status # "deleted" /\ d.new < p}
             f == [d \in S |-> d.new]
  <2>1. p \in Nat /\ IsFiniteSet(0..(p - 1)) /\ Cardinality(0..(p - 1)) = p
    BY <1>1, FirstNumbers
  <2>2. f \in [S -> 0..(p - 1)]
    BY FinishedEntries
  <2>3. \A d, e \in S : f[d] = f[e] => d = e
    BY FinishedEntries
  <2>4. \A k \in 0..(p - 1) : \E d \in S : f[d] = k
    <3> SUFFICES ASSUME NEW k \in 0..(p - 1)
                 PROVE  \E d \in S : f[d] = k
      OBVIOUS
    <3>1. k \in DOMAIN new /\ k < p
      BY <1>1, <2>1
    <3>2. PICK d \in diffs : d.new = k /\ d.status # "deleted"
      BY <3>1, FinishedEntries
    <3>3. d \in S
      BY <3>1, <3>2
    <3>4. QED
      BY <3>2, <3>3
  <2>5. f \in Injection(S, 0..(p - 1)) /\ f \in Surjection(S, 0..(p - 1))
    BY <2>2, <2>3, <2>4 DEF Injection, IsInjective, Surjection
  <2>6. IsFiniteSet(S) /\ Cardinality(S) = p
    <3> HIDE DEF S, f
    <3> QED BY <2>1, <2>5, FS_Injection
  <2>7. QED
    BY <2>6
<1>2. ASSUME NEW e \in diffs, e.status # "deleted"
      PROVE  Rank(diffs, e) = e.new
  <2>1. e.new \in 0..n /\ e.new \in DOMAIN new
    BY <1>2, FinishedEntries
  <2>2. Before(diffs, e) = {d \in diffs : d.status # "deleted" /\ d.new < e.new}
    BY <1>2 DEF Before, SortsBefore
  <2>3. QED
    BY <1>1, <2>1, <2>2 DEF Rank
<1>3. ASSUME NEW e \in diffs, e.status = "deleted"
      PROVE  Rank(diffs, e) >= n
  <2> DEFINE S == {d \in diffs : d.status # "deleted" /\ d.new < n}
  <2>1. IsFiniteSet(S) /\ Cardinality(S) = n
    BY <1>1
  <2>2. S \in SUBSET Before(diffs, e)
    BY <1>3 DEF Before, SortsBefore
  <2>3. IsFiniteSet(Before(diffs, e))
    BY EntriesFinite, FS_Subset DEF Before
  <2>4. QED
    <3> HIDE DEF S
    <3> QED BY <2>1, <2>2, <2>3, FS_Subset DEF Rank
<1>4. QED
  BY <1>2, <1>3

LEMMA ReportOrder == IInv /\ ReportIsSorted => ReportInReadingOrder
<1> SUFFICES ASSUME IInv, ReportIsSorted, phase = "done",
                    NEW i \in DOMAIN report
             PROVE  IF i - 1 \in DOMAIN new THEN report[i].new = i - 1
                    ELSE /\ report[i].status = "deleted"
                         /\ i > 1 /\ report[i - 1].status = "deleted" =>
                              report[i - 1].old < report[i].old
  BY DEF ReportInReadingOrder
<1>1. PICK n \in 0..MaxNodes : DOMAIN new = 0..(n - 1)
  BY TreeDomain DEF IInv, TypeOK
<1>2. IsFiniteSet(diffs) /\ TotallyOrdered(diffs)
  BY EntriesFinite, EntriesOrdered
<1>3. Cardinality(diffs) \in Nat
  BY <1>2, FS_CardinalityType
<1>4. report = Sorted(diffs) /\ DOMAIN report = 1..Cardinality(diffs)
  BY DEF ReportIsSorted, Sorted
<1>5. \A j \in 1..Cardinality(diffs) : report[j] \in diffs /\ Rank(diffs, report[j]) = j - 1
  BY <1>2, <1>4, SortedByRank
<1>6. \A e \in diffs : IF e.status = "deleted" THEN Rank(diffs, e) >= n
                                               ELSE Rank(diffs, e) = e.new
  BY <1>1, RanksOfEntries
<1>7. \A e \in diffs : e.status # "deleted" => e.new \in DOMAIN new
  BY FinishedEntries
<1>8. CASE i - 1 \in DOMAIN new
  <2>1. report[i].status # "deleted"
    BY <1>1, <1>4, <1>5, <1>6, <1>8
  <2>2. QED
    BY <1>4, <1>5, <1>6, <1>8, <2>1
<1>9. CASE i - 1 \notin DOMAIN new
  <2>1. report[i].status = "deleted"
    BY <1>4, <1>5, <1>6, <1>7, <1>9
  <2>2. ASSUME i > 1, report[i - 1].status = "deleted"
        PROVE  report[i - 1].old < report[i].old
    <3>1. i - 1 \in 1..Cardinality(diffs)
      BY <1>3, <1>4, <2>2
    <3>2. /\ report[i - 1] \in diffs /\ report[i] \in diffs
          /\ Rank(diffs, report[i - 1]) = i - 2 /\ Rank(diffs, report[i]) = i - 1
      BY <1>4, <1>5, <3>1
    <3>3. ~SortsBefore(report[i], report[i - 1]) /\ report[i] # report[i - 1]
      BY <1>2, <1>4, <3>1, <3>2, RanksGrow
    <3>4. SortsBefore(report[i - 1], report[i])
      BY <1>2, <3>2, <3>3 DEF TotallyOrdered
    <3>5. QED
      BY <2>1, <2>2, <3>4 DEF SortsBefore
  <2>3. QED
    BY <1>9, <2>1, <2>2
<1>10. QED
  BY <1>8, <1>9

\* The report lists the new version from front to back, then the deletions in
\* the old version's order, whatever order the phases found the entries in.
THEOREM ReportReads == Spec => []ReportInReadingOrder
<1>1. Init => ReportIsSorted
  BY DEF Init, ReportIsSorted
<1>2. ReportIsSorted /\ [Next]_vars => ReportIsSorted'
  BY DEF ReportIsSorted, Next, vars, MatchByHash, EndOfPhase1, MatchByPosition,
         CollectDeleted, Returned
<1>3. QED
  BY <1>1, <1>2, Invariance, ReportOrder, PTL DEF Spec
=============================================================================
