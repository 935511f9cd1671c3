------------------------- MODULE MCHierarchyBuilder -------------------------
(* HierarchyBuilder on two families of documents.                          *)
EXTENDS HierarchyBuilder

Heading(l) == [kind |-> "heading", level |-> l, size |-> 0]
Paragraph  == [kind |-> "paragraph", level |-> 0, size |-> 0]
List       == [kind |-> "list", level |-> 0, size |-> 2]
Skipped    == [kind |-> "skipped", level |-> 0, size |-> 0]

Block(page, top, t) ==
  [page |-> page, top |-> top, kind |-> t.kind, level |-> t.level, size |-> t.size]

\* Documents that test the merge: three blocks at any height on two pages,
\* pages in order, and up to two tables ordered by page and height.
Layouts ==
  LET Bs == {Block(p, y, t) : p \in 1..2, y \in 1..2, t \in {Heading(1), Paragraph, Skipped}}
      Ts == [page : 1..2, top : 1..2]
      Ordered(f) == \A i, j \in DOMAIN f : i < j => f[i].page <= f[j].page
      Sorted(f) == \A i, j \in DOMAIN f :
        i < j => \/ f[i].page < f[j].page
                 \/ f[i].page = f[j].page /\ f[i].top <= f[j].top
  IN  [blocks : {f \in [1..3 -> Bs] : Ordered(f)},
       tables : {f \in UNION {[1..n -> Ts] : n \in 0..2} : Sorted(f)}]

\* Documents that test the tree: five blocks below each other, with all kinds
\* and levels, and possibly a table between the second and the third.
Outlines ==
  LET Texts == {Heading(l) : l \in 1..3} \cup {Paragraph, List}
  IN  {[blocks |-> [i \in 1..5 |-> Block(1, 2 * i, f[i])], tables |-> ts] :
         f \in [1..5 -> Texts], ts \in {<<>>, <<[page |-> 1, top |-> 5]>>}}

MCInputs == Layouts \cup Outlines
=============================================================================
