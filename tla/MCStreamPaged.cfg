\* A table below the last text of its page is put at the end of the document.
SPECIFICATION Spec
CONSTANTS
  MaxDepth = 3
  Inputs <- MCInputs
INVARIANT StreamIsPaged
CHECK_DEADLOCK FALSE
