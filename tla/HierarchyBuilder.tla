-------------------------- MODULE HierarchyBuilder --------------------------
(***************************************************************************)
(* build_hierarchy and assign_paths (parser/hierarchy_builder.py): the     *)
(* merged stream becomes a list of nodes that name their parents, and the  *)
(* nodes get materialized paths.  The parse task stores the list as it is  *)
(* (services/version.py:55) and the diff engine relies on its positions.   *)
(***************************************************************************)
EXTENDS TableMerge, SequencesExt

VARIABLES
  item,       \* the item of the stream the loop is at
  position,   \* position_index: what the next node gets
  stack,      \* heading_stack: level -> position of its open heading, or None
  nodes,      \* the ParsedNodes so far
  paths       \* path of each node so far: a string such as "0.2.1", as character codes

build == <<item, position, stack, nodes, paths>>
vars  == <<merge, build>>

None   == -1
Levels == 1..MaxDepth

\* A ParsedNode; level 0 is None.  Of the raw_metadata we keep which block or table
\* the node was made of; the items of a list only know their markers (src 0).
Node(kind, level, pos, parent, src) ==
  [kind |-> kind, level |-> level, pos |-> pos, parent |-> parent, src |-> src]

At(pos) == nodes[pos + 1]

Items == [kind : Kinds \cup {"table"}, level : 0..MaxDepth, size : Nat, src : Nat]

ParsedNodes == [kind : Kinds \cup {"table", "list_item"}, level : 0..MaxDepth,
                pos : Nat, parent : Nat \cup {None}, src : Nat]

TypeOK ==
  /\ phase \in {"merge", "build", "paths", "done"}
  /\ IsInput(input)
  /\ next \in Nat \ {0}
  /\ stream \in Seq(Items)
  /\ \A i \in DOMAIN stream : stream[i].kind = "heading" => stream[i].level # 0
  /\ item \in Nat \ {0}
  /\ position \in Nat
  /\ stack \in [Levels -> None..(Len(nodes) - 1)]
  /\ nodes \in Seq(ParsedNodes)
  /\ paths \in Seq(Seq(Nat))

Init ==
  /\ MergeInit
  /\ item = 1
  /\ position = 0
  /\ stack = [l \in Levels |-> None]
  /\ nodes = <<>>
  /\ paths = <<>>

-----------------------------------------------------------------------------
\* The deepest open heading of a level below depth, or None.
IsNearest(parent, depth) ==
  \/ parent = None /\ \A l \in 1..(depth - 1) : stack[l] = None
  \/ \E l \in 1..(depth - 1) :
       /\ parent = stack[l] /\ stack[l] # None
       /\ \A m \in (l + 1)..(depth - 1) : stack[m] = None

\* _current_parent.
IsCurrentParent(parent) == IsNearest(parent, MaxDepth + 1)

Parents == None..(position - 1)

Current == stream[item]

\* The loop is at an item of these kinds and goes on to the next.
Handle(kinds) ==
  /\ phase = "build"
  /\ item \in DOMAIN stream
  /\ Current.kind \in kinds
  /\ item' = item + 1
  /\ UNCHANGED <<merge, paths>>

\* _make_paragraph_node and _make_table_node.
AddPlain ==
  /\ Handle({"paragraph", "table"})
  /\ \E parent \in Parents :
       /\ IsCurrentParent(parent)
       /\ nodes' = Append(nodes, Node(Current.kind, 0, position, parent, Current.src))
  /\ position' = position + 1
  /\ UNCHANGED stack

\* Seeded fault: deeper headings stay open.
OpenOnly(level, pos) == [stack EXCEPT ![level] = pos]

\* The heading takes its slot and closes the deeper ones.
Open(level, pos) ==
  [l \in Levels |-> IF l < level THEN stack[l] ELSE IF l = level THEN pos ELSE None]

\* _make_heading_node, and the update of heading_stack.
AddHeading ==
  /\ Handle({"heading"})
  /\ \E parent \in Parents :
       /\ IsNearest(parent, Current.level)
       /\ nodes' = Append(nodes, Node("heading", Current.level, position, parent, Current.src))
  /\ stack' = Open(Current.level, position)
  /\ position' = position + 1

\* Seeded fault: the LIST node is not counted.
AfterList(pos, size) == pos + size

\* The position _expand_list returns.
PositionAfterList(pos, size) == pos + size + 1

\* _expand_list: a LIST node and its items.
AddList ==
  /\ Handle({"list"})
  /\ \E parent \in Parents :
       /\ IsCurrentParent(parent)
       /\ nodes' = nodes \o <<Node("list", 0, position, parent, Current.src)>>
                     \o [i \in 1..Current.size |->
                           Node("list_item", 0, position + i, position, 0)]
  /\ position' = PositionAfterList(position, Current.size)
  /\ UNCHANGED stack

\* build_hierarchy returns; assign_paths starts.
EndOfStream ==
  /\ phase = "build"
  /\ item \notin DOMAIN stream
  /\ phase' = "paths"
  /\ UNCHANGED <<input, next, stream, build>>

\* Seeded fault: siblings are counted per kind of node.
CountOfKind(i) ==
  Cardinality({j \in 1..(i - 1) : /\ nodes[j].parent = nodes[i].parent
                                  /\ nodes[j].kind = nodes[i].kind})

\* child_count[parent] when the loop comes to the i-th node.
SiblingIndex(i) == Cardinality({j \in 1..(i - 1) : nodes[j].parent = nodes[i].parent})

\* The characters "." and "0".
Dot  == 46
Zero == 48

\* str of a natural number: its decimal digits.
Numeral[n \in Nat] ==
  IF n < 10 THEN <<Zero + n>> ELSE Append(Numeral[n \div 10], Zero + (n % 10))

\* Its path: its sibling index, after the path of its parent and a dot.
PathOf(i) ==
  LET parent == nodes[i].parent
      index  == Numeral[SiblingIndex(i)]
  IN  IF parent = None THEN index ELSE paths[parent + 1] \o <<Dot>> \o index

\* One iteration of assign_paths.
AssignPath ==
  /\ phase = "paths"
  /\ Len(paths) < Len(nodes)
  /\ paths' = Append(paths, PathOf(Len(paths) + 1))
  /\ UNCHANGED <<merge, item, position, stack, nodes>>

Return ==
  /\ phase = "paths"
  /\ Len(paths) = Len(nodes)
  /\ phase' = "done"
  /\ UNCHANGED <<input, next, stream, build>>

Merge == MergeStep /\ UNCHANGED build

Next ==
  \/ Merge
  \/ AddPlain \/ AddHeading \/ AddList \/ EndOfStream
  \/ AssignPath \/ Return

Spec == Init /\ [][Next]_vars

-----------------------------------------------------------------------------
\* Positions are 0, 1, 2, ... in the order of the list and a parent comes before
\* its children, lists with their items included: the diff engine and the task's
\* table of node ids (services/version.py:55) take both for granted.
PositionsAreReadingOrder ==
  /\ position = Len(nodes)
  /\ \A i \in DOMAIN nodes : nodes[i].pos = i - 1 /\ nodes[i].parent < i - 1

Headings(pos) == {p \in 0..(pos - 1) : At(p).level # 0}

\* The last of a set of positions, None if it is empty.
IsLast(p, S) == IF S = {} THEN p = None ELSE p \in S /\ \A q \in S : q <= p

\* What heading_stack is for: the nearest open heading below a depth is the last
\* heading of a level below it.
StackKnowsLast ==
  \A depth \in 1..(MaxDepth + 1), parent \in None..(position - 1) :
    IsNearest(parent, depth) =>
      IsLast(parent, {p \in Headings(position) : At(p).level < depth})

\* A heading belongs to the last heading before it with a smaller level, whatever
\* levels were skipped, repeated or closed in between.
NestsAt(i) ==
  nodes[i].kind = "heading" =>
    IsLast(nodes[i].parent, {p \in Headings(i - 1) : At(p).level < nodes[i].level})

HeadingsNest == \A i \in DOMAIN nodes : NestsAt(i)

\* Any other node belongs to the last heading before it, a list item to its list.
IsContentAt(i) ==
  /\ nodes[i].kind \in {"paragraph", "table", "list"} =>
       IsLast(nodes[i].parent, Headings(i - 1))
  /\ nodes[i].kind = "list_item" =>
       IsLast(nodes[i].parent, {p \in 0..(i - 2) : At(p).kind = "list"})

ContentUnderLastHeading == \A i \in DOMAIN nodes : IsContentAt(i)

\* Every node hangs where the headings before it put it, for any sequence of levels.
ParentsFollowHeadings == HeadingsNest /\ ContentUnderLastHeading

IInv == /\ TypeOK /\ PositionsAreReadingOrder /\ StackKnowsLast
        /\ HeadingsNest /\ ContentUnderLastHeading

\* Positions of the ancestors of the i-th node.
Ancestors(i) ==
  LET up[j \in DOMAIN nodes] ==
        IF nodes[j].parent = None THEN {}
        ELSE {nodes[j].parent} \cup up[nodes[j].parent + 1]
  IN  up[i]

\* Path q begins with path p and a dot: what LIKE 'p.%' tells.
Below(p, q) == IsPrefix(Append(p, Dot), q)

\* Paths identify the nodes and index the tree: the paths that begin with the path of
\* a node and a dot are those of its subtree, whatever the number of siblings, and
\* the subtree stands in one piece behind its node in the list, with nothing between
\* that belongs elsewhere.  Without the dot, as models/node.py:53 has it, this fails from
\* the eleventh sibling on: "0.1" begins "0.10".
PathsIndexTree ==
  \A i, j \in DOMAIN paths :
    /\ paths[i] = paths[j] => i = j
    /\ Below(paths[i], paths[j]) <=> i - 1 \in Ancestors(j)
    /\ i - 1 \in Ancestors(j) => \A k \in (i + 1)..j : Below(paths[i], paths[k])

\* The nodes made of a text block or a table, and the children of a node.
NodesOfBlock(i) == {n \in DOMAIN nodes : nodes[n].kind \in Kinds /\ nodes[n].src = i}
NodesOfTable(t) == {n \in DOMAIN nodes : nodes[n].kind = "table" /\ nodes[n].src = t}
ChildrenOf(n)   == {m \in DOMAIN nodes : nodes[m].parent = n - 1}

\* Nothing of a document is lost on its way into the tree and nothing comes twice:
\* every block that is not skipped and every table has one node, a list exactly as
\* many children as items, and the text of the tree reads in its order.
TreeIsComplete ==
  phase = "done" =>
    /\ \A i \in Text : \E n \in DOMAIN nodes :
         /\ NodesOfBlock(i) = {n} /\ nodes[n].kind = blocks[i].kind
         /\ blocks[i].kind = "list" => ChildrenOf(n) = (n + 1)..(n + blocks[i].size)
    /\ \A t \in DOMAIN tables : \E n \in DOMAIN nodes : NodesOfTable(t) = {n}
    /\ \A n \in DOMAIN nodes :
         \/ nodes[n].kind = "list_item"
         \/ nodes[n].kind = "table" /\ nodes[n].src \in DOMAIN tables
         \/ nodes[n].kind \in Kinds /\ nodes[n].src \in Text
    /\ \A m, n \in DOMAIN nodes :
         m < n /\ nodes[m].kind \in Kinds /\ nodes[n].kind \in Kinds =>
           nodes[m].src < nodes[n].src

-----------------------------------------------------------------------------
(* The inductive invariant behind PathsIndexTree, beside IInv.             *)

IsHeading(n) == nodes[n].kind = "heading"

LevelsAreHeadings == \A n \in DOMAIN nodes : IsHeading(n) <=> nodes[n].level # 0

\* The items of a list stand right behind it: no subtree starts among them.
ItemsFollowList ==
  \A n \in DOMAIN nodes : nodes[n].kind = "list_item" =>
    \A k \in (nodes[n].parent + 2)..n : nodes[k].kind = "list_item"

PathsSoFar ==
  /\ Len(paths) <= Len(nodes)
  /\ phase \notin {"paths", "done"} => paths = <<>>
  /\ phase = "done" => Len(paths) = Len(nodes)
  /\ \A i \in DOMAIN paths : paths[i] = PathOf(i)

TreeInv == LevelsAreHeadings /\ ItemsFollowList /\ PathsSoFar

(* The heading blocks and the heading nodes are the same, in the same order. *)

HeadingItems == {p \in DOMAIN stream : stream[p].kind = "heading"}

ItemsAreBlocks ==
  \A p \in DOMAIN stream : stream[p].kind # "table" => stream[p] = BlockItem(stream[p].src)

LoopBounds ==
  /\ phase \notin {"build", "paths", "done"} => item = 1 /\ nodes = <<>>
  /\ phase \in {"paths", "done"} => item \notin DOMAIN stream

NodesOfHeadings ==
  /\ \A n \in DOMAIN nodes : IsHeading(n) =>
       \E p \in HeadingItems : /\ p < item
                               /\ nodes[n].src = stream[p].src
                               /\ nodes[n].level = stream[p].level
  /\ \A p \in HeadingItems : p < item =>
       \E n \in DOMAIN nodes : IsHeading(n) /\ nodes[n].src = stream[p].src
  /\ \A m, n \in DOMAIN nodes :
       m < n /\ IsHeading(m) /\ IsHeading(n) => nodes[m].src < nodes[n].src

SourceInv == ItemsAreBlocks /\ LoopBounds /\ NodesOfHeadings

(* The inductive invariant behind TreeIsComplete.                          *)

\* Node n was made of the p-th item of the stream.
MadeOf(n, p) == nodes[n].kind = stream[p].kind /\ nodes[n].src = stream[p].src

NodesInv ==
  /\ \A n \in DOMAIN nodes : nodes[n].kind # "list_item" =>
       \E p \in DOMAIN stream : p < item /\ MadeOf(n, p)
  /\ \A p \in DOMAIN stream : p < item => \E n \in DOMAIN nodes : MadeOf(n, p)
  /\ \A m, n \in DOMAIN nodes, p, q \in DOMAIN stream :
       m < n /\ p < item /\ q < item /\ MadeOf(m, p) /\ MadeOf(n, q) => p < q
  /\ \A n \in DOMAIN nodes, p \in DOMAIN stream :
       p < item /\ nodes[n].kind = "list" /\ MadeOf(n, p) =>
         ChildrenOf(n) = (n + 1)..(n + stream[p].size)
=============================================================================
