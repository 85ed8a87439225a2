\* The task is declared with bind=True and takes no self, as in tasks.py.
SPECIFICATION Spec
CONSTANTS
  i1 = i1
  c1 = c1
  d1 = d1
  Requests = {r1, r2, r3}
  Documents = {i1}
  DocType <- MCDocType
  None = None
  Offered <- Queueing
  MaxInFlight = 1
  MaxCrashes = 0
  TaskAcceptsDocumentId = FALSE
INVARIANTS
  SignedDocumentsCanBeQueued
\* every request is served once, and then nothing happens
CHECK_DEADLOCK FALSE
