----------------------------- MODULE TableMerge -----------------------------
(***************************************************************************)
(* _merge_stream (parser/hierarchy_builder.py): the text blocks of a PDF,  *)
(* in the order PyMuPDF extracts them, and the tables pdfplumber finds are *)
(* merged into one stream of items.  A text block is a heading, a          *)
(* paragraph or a list already; one that is blank, an image or covered by  *)
(* a table is "skipped".                                                   *)
(***************************************************************************)
EXTENDS Integers, Sequences, FiniteSets

CONSTANTS
  MaxDepth,   \* heading levels: len(heading_stack)
  Inputs      \* the extracted documents considered, a set of Input records

Kinds == {"heading", "paragraph", "list"}

\* What is read of a RawBlock with its heading level (0: none) and number of
\* list items, and of a RawTable.  Tops are y coordinates, growing downwards;
\* pdfplumber lists the tables of a page from top to bottom.
IsBlock(b) ==
  /\ b.page \in Nat /\ b.top \in Nat
  /\ b.kind \in Kinds \cup {"skipped"}
  /\ IF b.kind = "heading" THEN b.level \in 1..MaxDepth ELSE b.level = 0
  /\ IF b.kind = "list" THEN b.size \in Nat \ {0, 1} ELSE b.size = 0

IsTable(t) == t.page \in Nat /\ t.top \in Nat

IsInput(d) ==
  /\ DOMAIN d.blocks = 1..Len(d.blocks) /\ Len(d.blocks) \in Nat
  /\ DOMAIN d.tables = 1..Len(d.tables) /\ Len(d.tables) \in Nat
  /\ \A i \in DOMAIN d.blocks : IsBlock(d.blocks[i])
  /\ \A i \in DOMAIN d.tables : IsTable(d.tables[i])
  /\ \A s, t \in DOMAIN d.tables :
       s < t /\ d.tables[s].page = d.tables[t].page => d.tables[s].top <= d.tables[t].top

ASSUME InputAssumption ==
  /\ MaxDepth \in Nat \ {0}
  /\ \A d \in Inputs : IsInput(d)

VARIABLES
  phase,    \* "merge" here
  input,    \* heading_results and tables
  next,     \* the block the loop is at
  stream    \* the items so far

merge == <<phase, input, next, stream>>

blocks == input.blocks
tables == input.tables

\* An item of the stream, with the index of the block or table it stands for.
BlockItem(i) == [kind |-> blocks[i].kind, level |-> blocks[i].level,
                 size |-> blocks[i].size, src |-> i]
TableItem(t) == [kind |-> "table", level |-> 0, size |-> 0, src |-> t]

\* inserted_tables.
Inserted ==
  {stream[i].src : i \in {j \in DOMAIN stream : stream[j].kind = "table"}}

MergeInit ==
  /\ phase = "merge"
  /\ input \in Inputs
  /\ next = 1
  /\ stream = <<>>

\* Seeded fault: a table at the height of the block counts as above it.
AboveOrLevel(t, b) == tables[t].page = b.page /\ tables[t].top <= b.top

\* Table t begins above block b, on its page.
Above(t, b) == tables[t].page = b.page /\ tables[t].top < b.top

\* The tables still to insert before block b.
DueBefore(b) == {t \in DOMAIN tables \ Inserted : Above(t, b)}

\* The order of page_tables: by height, and as found.
Higher(s, t) ==
  \/ tables[s].top < tables[t].top
  \/ tables[s].top = tables[t].top /\ s < t

\* One iteration of the inner loop that inserts a table.
InsertTable ==
  /\ phase = "merge"
  /\ next <= Len(blocks)
  /\ blocks[next].kind # "skipped"
  /\ \E t \in DueBefore(blocks[next]) :
       /\ \A u \in DueBefore(blocks[next]) \ {t} : Higher(t, u)
       /\ stream' = Append(stream, TableItem(t))
  /\ UNCHANGED <<phase, input, next>>

\* The block itself, after its tables.
InsertBlock ==
  /\ phase = "merge"
  /\ next <= Len(blocks)
  /\ blocks[next].kind # "skipped"
  /\ DueBefore(blocks[next]) = {}
  /\ stream' = Append(stream, BlockItem(next))
  /\ next' = next + 1
  /\ UNCHANGED <<phase, input>>

SkipBlock ==
  /\ phase = "merge"
  /\ next <= Len(blocks)
  /\ blocks[next].kind = "skipped"
  /\ next' = next + 1
  /\ UNCHANGED <<phase, input, stream>>

\* Seeded fault: a page with text is taken to have had its tables.
LeftoverOfPages ==
  {t \in DOMAIN tables \ Inserted :
     \A i \in DOMAIN blocks : blocks[i].page # tables[t].page}

\* Tables no text came after on their page.
Leftover == DOMAIN tables \ Inserted

\* The final loop, in the order the tables were found.
InsertLeftover ==
  /\ phase = "merge"
  /\ next > Len(blocks)
  /\ \E t \in Leftover :
       /\ \A u \in Leftover : t <= u
       /\ stream' = Append(stream, TableItem(t))
  /\ UNCHANGED <<phase, input, next>>

EndOfMerge ==
  /\ phase = "merge"
  /\ next > Len(blocks)
  /\ Leftover = {}
  /\ phase' = "build"
  /\ UNCHANGED <<input, next, stream>>

MergeStep == InsertTable \/ InsertBlock \/ SkipBlock \/ InsertLeftover \/ EndOfMerge

-----------------------------------------------------------------------------
\* Where in the stream a block or table is.
BlockPlaces(i) == {p \in DOMAIN stream : stream[p].kind # "table" /\ stream[p].src = i}
TablePlaces(t) == {p \in DOMAIN stream : stream[p].kind = "table" /\ stream[p].src = t}

Text == {i \in DOMAIN blocks : blocks[i].kind # "skipped"}

\* Nothing is lost or doubled, and text keeps its order.
StreamIsComplete ==
  phase # "merge" =>
    /\ Len(stream) = Cardinality(Text) + Len(tables)
    /\ \A t \in DOMAIN tables : TablePlaces(t) # {}
    /\ \A i \in Text : BlockPlaces(i) # {}
    /\ \A i, j \in Text : i < j =>
         \A p \in BlockPlaces(i), q \in BlockPlaces(j) : p < q

\* A table stands before exactly the text of its page that is extracted with or
\* after the first text below the table's top, and the tables of a page are in
\* order of height.
TablesInPlace ==
  phase # "merge" =>
    \A t \in DOMAIN tables :
      /\ \A i \in Text :
           blocks[i].page = tables[t].page =>
             ((\A p \in TablePlaces(t), q \in BlockPlaces(i) : p < q)
                <=> \E j \in Text : /\ j <= i /\ blocks[j].page = tables[t].page
                                   /\ tables[t].top < blocks[j].top)
      /\ \A s \in DOMAIN tables :
           tables[s].page = tables[t].page /\ tables[s].top < tables[t].top =>
             \A p \in TablePlaces(s), q \in TablePlaces(t) : p < q

\* "Both sources are sorted by (page_number, y-position / block_index)"
\* (hierarchy_builder.py:256): no page's items come after a later page's.
StreamIsPaged ==
  LET PageOf(it) == IF it.kind = "table" THEN tables[it.src].page ELSE blocks[it.src].page
  IN  \A p, q \in DOMAIN stream : p < q => PageOf(stream[p]) <= PageOf(stream[q])

(* The inductive invariant behind them.                                    *)

\* The block or table an item stands for.
PlaceOf(it) == IF it.kind = "table" THEN tables[it.src] ELSE blocks[it.src]

SourcesKnown ==
  \A p \in DOMAIN stream :
    IF stream[p].kind = "table" THEN stream[p].src \in DOMAIN tables
                                ELSE stream[p].src \in Text /\ stream[p].src < next

\* No item comes twice, and text keeps its order.
ItemsApart ==
  \A p, q \in DOMAIN stream : p < q =>
    /\ stream[p].kind = "table" /\ stream[q].kind = "table" => stream[p].src # stream[q].src
    /\ stream[p].kind # "table" /\ stream[q].kind # "table" => stream[p].src < stream[q].src

TextPlaced == \A i \in Text : i < next => BlockPlaces(i) # {}

\* Whatever is placed comes after the tables that begin above it on its page.
HigherTablesFirst ==
  \A q \in DOMAIN stream, t \in DOMAIN tables :
    Above(t, PlaceOf(stream[q])) => \E p \in TablePlaces(t) : p < q

\* A table is placed for the first text below its top, and no earlier text follows;
\* or, at the end, no text follows at all.
LowerTextFollows ==
  \A p \in DOMAIN stream : stream[p].kind = "table" =>
    \/ \E j \in Text :
         /\ j <= next /\ Above(stream[p].src, blocks[j])
         /\ \A q \in DOMAIN stream :
              p < q /\ stream[q].kind # "table" => j <= stream[q].src
    \/ /\ next > Len(blocks)
       /\ \A q \in DOMAIN stream : p < q => stream[q].kind = "table"

MergeEnds == phase # "merge" => next > Len(blocks) /\ Leftover = {}

MergeInv ==
  /\ SourcesKnown /\ ItemsApart /\ TextPlaced
  /\ HigherTablesFirst /\ LowerTextFollows /\ MergeEnds
=============================================================================
