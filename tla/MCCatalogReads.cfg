\* One walk or one selection beside three documents and two versions.
SPECIFICATION ReadsSpec
CONSTANTS
  Docs = {d1, d2, d3}
  Ids = {v1, v2}
  MaxNodes = 2
  Walkers = {w1}
  Selectors = {s1}
  Limit = 1
  NoNode = NoNode
  MaxChosen = 2
SYMMETRY Symmetry
CONSTRAINT OneKindAtWork
INVARIANTS NoDocumentSkipped TotalIsReached WalkIsExact SelectionsAreWhole AnswersAreTrue
CHECK_DEADLOCK FALSE
