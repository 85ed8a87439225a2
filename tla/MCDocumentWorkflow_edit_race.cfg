\* An update that read a draft commits after the signature.
SPECIFICATION Spec
CONSTANTS
  i1 = i1
  c1 = c1
  d1 = d1
  Requests = {r1, r2, r3}
  Documents = {i1}
  DocType <- MCDocType
  None = None
  Offered <- Editing
  MaxInFlight = 2
  MaxCrashes = 0
  TaskAcceptsDocumentId = FALSE
PROPERTIES
  EditedOnlyInDraft
\* every request is served once, and then nothing happens
CHECK_DEADLOCK FALSE
