\* An invoice and a credit note, five requests, two at a time, one of which may die.
SPECIFICATION Spec
CONSTANTS
  i1 = i1
  c1 = c1
  d1 = d1
  Requests = {r1, r2, r3, r4, r5}
  Documents = {i1, c1}
  DocType <- MCDocType
  None = None
  Offered <- AllOperations
  MaxInFlight = 2
  MaxCrashes = 1
  TaskAcceptsDocumentId = TRUE
SYMMETRY RequestSymmetry
INVARIANTS
  WorkflowInv
  SignedDocumentsHaveXml
  SignedXmlHasLines
  
  EventsAreConnected
  NotesReferToSignedInvoices
  
\* every request is served once, and then nothing happens
CHECK_DEADLOCK FALSE
