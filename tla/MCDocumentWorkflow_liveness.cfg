\* Requests that wait for each other's row.
SPECIFICATION FairSpec
CONSTANTS
  i1 = i1
  c1 = c1
  d1 = d1
  Requests = {r1, r2, r3}
  Documents = {i1}
  DocType <- MCDocType
  None = None
  Offered <- Signing
  MaxInFlight = 3
  MaxCrashes = 1
  TaskAcceptsDocumentId = FALSE
PROPERTIES
  RequestsComplete
\* every request is served once, and then nothing happens
CHECK_DEADLOCK FALSE
