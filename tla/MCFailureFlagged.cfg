\* One database call of a parse task fails, before its handler runs; the server never
\* crashes.
SPECIFICATION HandlerSpec
CONSTANTS
  Uploads = {u1, u2}
  Docs = {d1}
  NoOne = NoOne
  NoDoc = NoDoc
  RowLocks = TRUE
  MaxNodes = 1
  MaxFailures = 1
  MaxCrashes = 0
INVARIANT FailureIsFlagged
