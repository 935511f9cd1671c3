\* Two versions of one document, the first still processing or failed.
SPECIFICATION CompareSpec
CONSTANTS
  Uploads = {u1, u2}
  Docs = {d1}
  Readers = {r1}
  NoOne = NoOne
  NoDoc = NoDoc
  RowLocks = TRUE
  MaxNodes = 1
  MaxFailures = 0
  MaxCrashes = 0
INVARIANT BaseWasReady
