\* An invoice and a note of each kind, one request at a time and two downloads beside them.
SPECIFICATION PdfSpec
CONSTANTS
  i1 = i1
  c1 = c1
  d1 = d1
  Requests = {r1, r2, r3}
  Documents = {i1, c1, d1}
  DocType <- MCDocType
  None = None
  Offered <- AllOperations
  MaxInFlight = 1
  MaxCrashes = 1
  TaskAcceptsDocumentId = TRUE
  Downloads = {g1, g2}
SYMMETRY Symmetry
INVARIANTS
  PdfTypeOK
  PdfPathsLeadToFiles
  
  PagesShowReachedStatuses
\* every request is served once, and then nothing happens
CHECK_DEADLOCK FALSE
