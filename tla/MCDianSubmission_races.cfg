\* Two workers, two tasks and API transitions for one invoice; no retry is left.
SPECIFICATION SystemSpec
CONSTANTS
  i1 = i1
  c1 = c1
  d1 = d1
  Requests = {r1, r2, r3, r4, r5}
  Documents = {i1}
  DocType <- MCDocType
  None = None
  Offered <- Answering
  MaxInFlight = 2
  MaxCrashes = 0
  TaskAcceptsDocumentId = TRUE
  Workers = {w1, w2}
  MaxRetries = 0
  MaxFaults = 1
  MaxTimeouts = 1
SYMMETRY Symmetry
INVARIANTS
  SystemTypeOK
  DianGetsSubmittedDocuments
  ResponsesWereGiven
  EventsAreConnected
\* every request is served once, and then nothing happens
CHECK_DEADLOCK FALSE
