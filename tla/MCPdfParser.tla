---------------------------- MODULE MCPdfParser -----------------------------
(* PdfParser on three families of documents.                               *)
EXTENDS PdfParser

Line(kind, depth, size, chars) ==
  [kind |-> kind, depth |-> depth, size |-> size, chars |-> chars]
Block(x, y, lines) ==
  [box |-> [x0 |-> x, y0 |-> y, x1 |-> x + 2, y1 |-> y + 1],
   image |-> FALSE, lines |-> lines]
Table(x, y, rows) ==
  [box |-> [x0 |-> x, y0 |-> y, x1 |-> x + 3, y1 |-> y + 1], rows |-> rows, cols |-> 2]

Paragraph   == <<Line("plain", 0, 10, 9)>>
Title       == <<Line("plain", 0, 20, 3)>>
Subtitle    == <<Line("plain", 0, 14, 3)>>
Numbered(n) == <<Line("item", n, 10, 3)>>
List        == <<Line("plain", 0, 10, 3), Line("item", 0, 10, 3), Line("plain", 0, 10, 3),
                 Line("blank", 0, 10, 1), Line("plain", 0, 10, 3), Line("item", 0, 10, 3)>>
Gap         == <<Line("blank", 0, 30, 2)>>
Image(y)    == [Block(0, y, <<>>) EXCEPT !.image = TRUE]

\* Documents that test the merge and the tables: three blocks at any height on two
\* pages; up to two tables beside the text or over half of it, or a pseudo-table.
Layouts ==
  LET Bs == {Block(0, y, t) : y \in 1..2, t \in {Title, Paragraph}} \cup {Image(1)}
      Ts == {<<>>} \cup {<<Table(x, y, 2)>> : x \in {1, 4}, y \in 1..2}
      Texts(n) == [1..n -> Bs]
      Pages(Bn, T) == {[blocks |-> b, tables |-> t] : b \in Bn, t \in T}
  IN  UNION {{<<p, q>> : p \in Pages(Texts(n), Ts \cup {<<Table(1, 2, 1)>>}),
                         q \in Pages(Texts(3 - n), {<<>>, <<Table(4, 2, 2)>>})} :
               n \in 0..3}
        \cup {<<p>> : p \in Pages(Texts(3), {f \o <<Table(4, 2, 2)>> : f \in Ts})}

\* Documents that test the tree: five blocks below each other, or four of more
\* kinds, with a table beside.
Outlines ==
  LET Few  == {Title, Subtitle, Numbered(3), Paragraph, List}
      Many == {Title, Subtitle, Numbered(1), Numbered(4), Paragraph, List, Gap}
      Page(f) == [blocks |-> [i \in DOMAIN f |-> Block(0, 2 * i, f[i])],
                  tables |-> <<Table(4, 5, 2)>>]
  IN  {<<Page(f)>> : f \in [1..5 -> Few] \cup [1..4 -> Many]}

\* Documents with more than ten siblings: lists of eleven items between headings and
\* text, and twelve headings, some with text below them.
LongOutlines ==
  LET Eleven == [i \in 1..11 |-> Line("item", 0, 10, 3)]
      Sections(S) == FlattenSeq([i \in 1..12 |->
                      IF i \in S THEN <<Title, Paragraph>> ELSE <<Title>>])
      Page(f) == [blocks |-> [i \in DOMAIN f |-> Block(0, 2 * i, f[i])], tables |-> <<>>]
  IN  {<<Page(f)>> : f \in [1..3 -> {Title, Paragraph, Eleven}]
                           \cup {Sections(S) : S \in SUBSET {1, 2, 11, 12}}}

\* ... and a file without text.
MCDocuments == Layouts \cup Outlines \cup LongOutlines \cup {<<[blocks |-> <<>>, tables |-> <<>>]>>}
=============================================================================
