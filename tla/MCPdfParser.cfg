\* All outlines of four and five blocks, all layouts of three blocks on two pages, and
\* outlines with more than ten siblings.
SPECIFICATION ParserSpec
CONSTANTS
  MaxDepth = 3
  Inputs = {}
  Documents <- MCDocuments
INVARIANTS SuppressedTextIsInATable SmallerHeadingsNest TreeIsComplete
           TablesInPlace PositionsAreReadingOrder ParentsFollowHeadings
           PathsIndexTree
CHECK_DEADLOCK FALSE
