\* A signed document is queued and stays signed.
SPECIFICATION SystemFairSpec
CONSTANTS
  i1 = i1
  c1 = c1
  d1 = d1
  Requests = {r1, r2, r3}
  Documents = {i1}
  DocType <- MCDocType
  None = None
  Offered <- Submitting
  MaxInFlight = 1
  MaxCrashes = 0
  TaskAcceptsDocumentId = TRUE
  Workers = {w1}
  MaxRetries = 5
  MaxFaults = 0
  MaxTimeouts = 0
PROPERTIES
  QueuedDocumentsAreAnswered
\* every request is served once, and then nothing happens
CHECK_DEADLOCK FALSE
