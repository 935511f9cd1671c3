----------------------------- MODULE PdfParser ------------------------------
(***************************************************************************)
(* parse_pdf (parser/pdf_parser.py): the passes that run before the        *)
(* hierarchy builder, and the builder behind them.  PyMuPDF yields text    *)
(* blocks page by page, headings are told by font size and numbering,      *)
(* pdfplumber opens the same file again for its tables, text that a table  *)
(* covers is left out, and text that reads like a list becomes one.  Lines *)
(* are classes of text; sizes and boxes are on a grid.                     *)
(***************************************************************************)
EXTENDS HierarchyBuilder

CONSTANT Documents   \* the PDF files considered: sequences of pages

\* What the passes read of a line.  Its kind is what _match_list_prefix makes of it;
\* depth counts the numbers of a prefix such as "1.2 ", and is 0 without one.
IsLine(l) ==
  /\ l.kind \in {"blank", "plain", "item"}
  /\ l.depth \in Nat /\ l.size \in Nat /\ l.chars \in Nat

IsBox(b) ==
  /\ b.x0 \in Nat /\ b.y0 \in Nat /\ b.x1 \in Nat /\ b.y1 \in Nat
  /\ b.x0 <= b.x1 /\ b.y0 <= b.y1

IsPage(p) ==
  /\ DOMAIN p.blocks = 1..Len(p.blocks) /\ Len(p.blocks) \in Nat
  /\ \A i \in DOMAIN p.blocks :
       /\ IsBox(p.blocks[i].box) /\ p.blocks[i].image \in BOOLEAN
       /\ DOMAIN p.blocks[i].lines = 1..Len(p.blocks[i].lines)
       /\ Len(p.blocks[i].lines) \in Nat
       /\ \A j \in DOMAIN p.blocks[i].lines : IsLine(p.blocks[i].lines[j])
  /\ DOMAIN p.tables = 1..Len(p.tables) /\ Len(p.tables) \in Nat
  /\ \A t \in DOMAIN p.tables :
       IsBox(p.tables[t].box) /\ p.tables[t].rows \in Nat /\ p.tables[t].cols \in Nat
  /\ \A s, t \in DOMAIN p.tables : s < t => p.tables[s].box.y0 <= p.tables[t].box.y0

ASSUME DocumentAssumption ==
  \A d \in Documents :
    /\ DOMAIN d = 1..Len(d) /\ Len(d) \in Nat
    /\ \A p \in DOMAIN d : IsPage(d[p])

VARIABLES
  doc,      \* the file
  page,     \* the page the loop of a pass is at
  object,   \* the table of the page the loop is at
  raw,      \* raw_blocks
  levels,   \* heading_results: the level of each raw block, 0 for none
  found     \* raw_tables

front      == <<doc, page, object, raw, levels, found>>
parserVars == <<vars, front>>

\* The phases before the builder's, and the two ends that do without it.
Passes == {"extract", "headings", "tables", "handover"}
Ends   == {"empty", "failed"}

ParserInit ==
  /\ doc \in Documents
  /\ page = 1 /\ object = 1
  /\ raw = <<>>
  /\ levels = <<>>
  /\ found = <<>>
  /\ phase = "extract"
  /\ input = [blocks |-> <<>>, tables |-> <<>>]
  /\ next = 1 /\ stream = <<>>
  /\ item = 1 /\ position = 0 /\ stack = [l \in 1..MaxDepth |-> None]
  /\ nodes = <<>> /\ paths = <<>>

\* A pass changes this much of the builder's state.
Waiting == UNCHANGED <<input, next, stream, build>>

-----------------------------------------------------------------------------
(* Pass 1: extract_blocks.                                                 *)

\* The parts i \in S have f[i].chars characters each: the number of all of them.
CharCount(f, S) == Cardinality(UNION {{i} \X (1..f[i].chars) : i \in S})

\* Of parts of f[i].chars characters of f[i].size, the size that most characters
\* have, the first of them if several do.
MainSize(f, S) ==
  LET chars(s) == CharCount(f, {i \in S : f[i].size = s})
  IN  f[CHOOSE i \in S : \A j \in S :
          \/ chars(f[i].size) > chars(f[j].size)
          \/ chars(f[i].size) = chars(f[j].size) /\ i <= j].size

\* _dominant_font_props; an image or a block without spans has size 0.
FontSize(b) == IF b.image \/ Len(b.lines) = 0 THEN 0 ELSE MainSize(b.lines, DOMAIN b.lines)

\* The RawBlocks of page p.
RawBlocks(p) ==
  [i \in DOMAIN doc[p].blocks |->
     [page |-> p, box |-> doc[p].blocks[i].box, image |-> doc[p].blocks[i].image,
      lines |-> doc[p].blocks[i].lines]]

ExtractPage ==
  /\ phase = "extract"
  /\ page <= Len(doc)
  /\ raw' = raw \o RawBlocks(page)
  /\ page' = page + 1
  /\ UNCHANGED <<phase, doc, object, levels, found>> /\ Waiting

EndOfPages ==
  /\ phase = "extract"
  /\ page > Len(doc)
  /\ phase' = IF raw = <<>> THEN "empty" ELSE "headings"
  /\ page' = 1
  /\ UNCHANGED <<doc, object, raw, levels, found>> /\ Waiting

\* The file cannot be opened, or a page cannot be read: PDFParsingError.
ExtractFails ==
  /\ phase = "extract"
  /\ phase' = "failed"
  /\ UNCHANGED front /\ Waiting

-----------------------------------------------------------------------------
(* Pass 2: detect_headings.                                                *)

HasText(b) == ~b.image /\ \E j \in DOMAIN b.lines : b.lines[j].kind # "blank"

\* _body_font_size: by the length of the blocks that have text, line ends included.
BodySize ==
  LET texts == {i \in DOMAIN raw : HasText(raw[i])}
      chars(b) == CharCount(b.lines, DOMAIN b.lines) + Len(b.lines) - 1
  IN  IF texts = {} THEN 12
      ELSE MainSize([i \in texts |-> [size |-> FontSize(raw[i]), chars |-> chars(raw[i])]],
                    texts)

\* 20 % above the body.
IsLarge(size, body) == 5 * size > 6 * body

\* heading_sizes: of all blocks but images, blank ones too.
HeadingSizes ==
  LET body == BodySize
      all  == {FontSize(raw[i]) : i \in {j \in DOMAIN raw : ~raw[j].image}}
  IN  {s \in all : IsLarge(s, body)}

AtMostDepth(n) == IF n > MaxDepth THEN MaxDepth ELSE n

\* Seeded fault: sizes ranked in ascending order.
RankAscending(size, sizes) == Cardinality({s \in sizes : s < size}) + 1

\* _font_size_heading_level, before its cap.
Rank(size, sizes) == Cardinality({s \in sizes : s > size}) + 1

\* The numbering of the first line overrides the font; any of the two is
\* confidence enough, whether the block is bold or not.
Level(b, sizes) ==
  IF ~HasText(b) THEN 0
  ELSE IF b.lines[1].depth > 0 THEN AtMostDepth(b.lines[1].depth)
  ELSE IF FontSize(b) \in sizes THEN AtMostDepth(Rank(FontSize(b), sizes)) ELSE 0

DetectHeadings ==
  /\ phase = "headings"
  /\ \E sizes \in {HeadingSizes} :
       levels' = [i \in DOMAIN raw |-> Level(raw[i], sizes)]
  /\ phase' = "tables"
  /\ UNCHANGED <<doc, page, object, raw, found>> /\ Waiting

-----------------------------------------------------------------------------
(* Pass 3: extract_tables.                                                 *)

\* Not a pseudo-table.
IsRealTable(t) == t.rows >= 2 /\ t.cols >= 2

\* One turn of the loop over find_tables().
ExtractTable ==
  /\ phase = "tables"
  /\ page <= Len(doc)
  /\ object <= Len(doc[page].tables)
  /\ LET t == doc[page].tables[object]
     IN  found' = IF IsRealTable(t) THEN Append(found, [page |-> page, box |-> t.box])
                  ELSE found
  /\ object' = object + 1
  /\ UNCHANGED <<phase, doc, page, raw, levels>> /\ Waiting

EndOfTablePage ==
  /\ phase = "tables"
  /\ page <= Len(doc)
  /\ object > Len(doc[page].tables)
  /\ page' = page + 1
  /\ object' = 1
  /\ UNCHANGED <<phase, doc, raw, levels, found>> /\ Waiting

EndOfTables ==
  /\ phase = "tables"
  /\ page > Len(doc)
  /\ phase' = "handover"
  /\ page' = 1 /\ object' = 1
  /\ UNCHANGED <<doc, raw, levels, found>> /\ Waiting

\* pdfplumber cannot open the file, or a page raises ValueError: no tables at all.
NoTables ==
  /\ phase = "tables"
  /\ found' = <<>>
  /\ phase' = "handover"
  /\ page' = 1 /\ object' = 1
  /\ UNCHANGED <<doc, raw, levels>> /\ Waiting

\* A page raises anything else: PDFParsingError.
TablesFail ==
  /\ phase = "tables"
  /\ phase' = "failed"
  /\ UNCHANGED front /\ Waiting

-----------------------------------------------------------------------------
(* Pass 4: _compute_table_suppressed; what _merge_stream makes of a block. *)

Area(b) == (b.x1 - b.x0) * (b.y1 - b.y0)

\* bbox_overlaps: half of a's area is in b.
Overlaps(a, b) ==
  LET lower(m, n) == IF m < n THEN m ELSE n
      upper(m, n) == IF m < n THEN n ELSE m
      both == [x0 |-> upper(a.x0, b.x0), y0 |-> upper(a.y0, b.y0),
               x1 |-> lower(a.x1, b.x1), y1 |-> lower(a.y1, b.y1)]
  IN  both.x1 > both.x0 /\ both.y1 > both.y0 /\ 2 * Area(both) >= Area(a)

\* Seeded fault: pseudo-tables suppress text too.
CoveredByAny(b) ==
  \E t \in DOMAIN doc[b.page].tables : Overlaps(b.box, doc[b.page].tables[t].box)

Covered(b) ==
  \E t \in DOMAIN found : found[t].page = b.page /\ Overlaps(b.box, found[t].box)

\* detect_lists: every line with a marker starts an item.
ListItems(b) == {j \in DOMAIN b.lines : b.lines[j].kind = "item"}

Kind(b, level) ==
  IF ~HasText(b) \/ Covered(b) THEN "skipped"
  ELSE IF level > 0 THEN "heading"
  ELSE IF Cardinality(ListItems(b)) >= 2 THEN "list" ELSE "paragraph"

ClassifiedBlock(b, level) ==
  LET kind == Kind(b, level)
  IN  [page |-> b.page, top |-> b.box.y0, kind |-> kind,
       level |-> IF kind = "heading" THEN level ELSE 0,
       size |-> IF kind = "list" THEN Cardinality(ListItems(b)) ELSE 0]

\* What the builder is given.
HandedOver ==
  [blocks |-> [i \in DOMAIN raw |-> ClassifiedBlock(raw[i], levels[i])],
   tables |-> [t \in DOMAIN found |-> [page |-> found[t].page, top |-> found[t].box.y0]]]

HandOver ==
  /\ phase = "handover"
  /\ input' = HandedOver
  /\ phase' = "merge"
  /\ UNCHANGED <<front, next, stream, build>>

-----------------------------------------------------------------------------
PassStep ==
  \/ ExtractPage \/ EndOfPages \/ ExtractFails
  \/ DetectHeadings
  \/ ExtractTable \/ EndOfTablePage \/ EndOfTables \/ NoTables \/ TablesFail
  \/ HandOver

ParserNext == PassStep \/ (Next /\ UNCHANGED front)

ParserSpec == ParserInit /\ [][ParserNext]_parserVars
-----------------------------------------------------------------------------
\* The builder has its blocks and tables.
Building == phase \notin Passes \cup Ends

\* Whatever the layout, fonts and numbering of a file, what the passes hand over is
\* what the builder can take: above all no level is without a slot in heading_stack,
\* whose six slots are written into the builder (hierarchy_builder.py:84).
PassesMeetBuilder == Building => IsInput(input)

\* Text that is left out stands in a table of the tree: a block is suppressed only
\* for a table that is put in, also when tables are dropped on the way as
\* pseudo-tables or because the second reading of the file failed (pdf_parser.py:114).
SuppressedTextIsInATable ==
  phase = "done" =>
    \A i \in DOMAIN raw : HasText(raw[i]) /\ BlockPlaces(i) = {} =>
      \E t \in DOMAIN found :
        /\ TablePlaces(t) # {}
        /\ tables[t].page = raw[i].page
        /\ Overlaps(raw[i].box, found[t].box)

HeadingBlocks == {i \in DOMAIN blocks : blocks[i].kind = "heading"}

\* The index of the node of heading block i.
NodeOf(i) == CHOOSE n \in DOMAIN nodes : nodes[n].kind = "heading" /\ nodes[n].src = i

\* Headings in smaller type are below the last one in larger type, down to the
\* deepest level: ranking of sizes, heading stack and paths agree.  (Headings with
\* a numbering go by that.)
SmallerHeadingsNest ==
  phase = "done" =>
    \A i, j \in HeadingBlocks :
      /\ i < j /\ blocks[i].level < MaxDepth
      /\ \A k \in HeadingBlocks \cap i..j :
           /\ raw[k].lines[1].depth = 0
           /\ k # i => FontSize(raw[k]) < FontSize(raw[i])
      => Below(paths[NodeOf(i)], paths[NodeOf(j)])
=============================================================================
