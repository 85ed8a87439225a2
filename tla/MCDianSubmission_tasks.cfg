\* One worker and one request at a time, with losses and retries.
SPECIFICATION SystemFairSpec
CONSTANTS
  i1 = i1
  c1 = c1
  d1 = d1
  Requests = {r1, r2, r3, r4, r5}
  Documents = {i1}
  DocType <- MCDocType
  None = None
  Offered <- Submitting
  MaxInFlight = 1
  MaxCrashes = 0
  TaskAcceptsDocumentId = TRUE
  Workers = {w1}
  MaxRetries = 1
  MaxFaults = 1
  MaxTimeouts = 0
INVARIANTS
  OneResponsePerDocument
PROPERTIES
  SubmittedTasksAreAnswered
\* every request is served once, and then nothing happens
CHECK_DEADLOCK FALSE
