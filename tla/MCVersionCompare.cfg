\* One comparison beside three uploads to two documents; the server may crash.
SPECIFICATION CompareSpec
CONSTANTS
  Uploads = {u1, u2, u3}
  Docs = {d1, d2}
  Readers = {r1}
  NoOne = NoOne
  NoDoc = NoDoc
  RowLocks = TRUE
  MaxNodes = 1
  MaxFailures = 0
  MaxCrashes = 1
SYMMETRY UploadSymmetry
INVARIANTS PreviousIsAdjacent AnswerStaysTrue
