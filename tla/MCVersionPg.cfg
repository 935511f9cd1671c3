\* PostgreSQL: three uploads race for one document while one database call
\* fails and the server crashes once.
SPECIFICATION Spec
CONSTANTS
  Uploads = {u1, u2, u3}
  Docs = {d1, d2}
  NoOne = NoOne
  NoDoc = NoDoc
  RowLocks = TRUE
  MaxNodes = 1
  MaxFailures = 1
  MaxCrashes = 1
SYMMETRY UploadSymmetry
INVARIANTS GaplessNumbers TreePublishedWithReady NoNumberConflict
PROPERTIES TerminalStatusIsFinal ImplementsCatalog
