\* All pairs of versions of up to five nodes with up to three contents.
SPECIFICATION Spec
CONSTANTS
  Hashes = {h1, h2, h3}
  MaxNodes = 5
  Tolerance = 2
  NoPos = NoPos
SYMMETRY HashSymmetry
INVARIANTS EveryNodeReportedOnce StatusesAreTrue NoMissedMatch
           CommonPrefixIsUnchanged ReportInReadingOrder
