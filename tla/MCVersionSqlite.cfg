\* SQLite: no row locks, one writer at a time; nothing fails.
SPECIFICATION FairSpec
CONSTANTS
  Uploads = {u1, u2, u3}
  Docs = {d1}
  NoOne = NoOne
  NoDoc = NoDoc
  RowLocks = FALSE
  MaxNodes = 1
  MaxFailures = 0
  MaxCrashes = 0
INVARIANT UniqueNumbers
PROPERTIES UploadsAnswered ProcessingResolves
