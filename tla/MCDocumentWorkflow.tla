------------------------- MODULE MCDocumentWorkflow -------------------------
(* Small instances of DocumentWorkflow: documents and requests are model   *)
(* values; the requests are interchangeable, the documents are not.        *)
EXTENDS DocumentWorkflow, TLC

CONSTANTS i1, c1, d1

(* one invoice, or an invoice with one note of each kind *)
MCDocType ==
  [d \in Documents |-> CASE d = i1 -> "invoice"
                         [] d = c1 -> "credit_note"
                         [] d = d1 -> "debit_note"]

AllOperations == Operations
Editing       == {"create", "update", "sign"}
Signing       == {"create", "update", "sign", "cancel"}
Queueing      == {"create", "sign", "queue"}

RequestSymmetry == Permutations(Requests)
=============================================================================
