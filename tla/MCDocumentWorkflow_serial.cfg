\* An invoice and a note of each kind, one request at a time; one request may die.
SPECIFICATION Spec
CONSTANTS
  i1 = i1
  c1 = c1
  d1 = d1
  Requests = {r1, r2, r3, r4, r5, r6}
  Documents = {i1, c1, d1}
  DocType <- MCDocType
  None = None
  Offered <- AllOperations
  MaxInFlight = 1
  MaxCrashes = 1
  TaskAcceptsDocumentId = TRUE
SYMMETRY RequestSymmetry
INVARIANTS
  LinesMatchTotals
  CufeMatchesXml
PROPERTIES
  ImplementsLifecycle
\* every request is served once, and then nothing happens
CHECK_DEADLOCK FALSE
