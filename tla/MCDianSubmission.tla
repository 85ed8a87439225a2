--------------------------- MODULE MCDianSubmission ---------------------------
(* Small instances of DianSubmission: requests and workers are             *)
(* interchangeable.                                                        *)
EXTENDS DianSubmission, TLC

CONSTANTS i1, c1, d1

MCDocType ==
  [d \in Documents |-> CASE d = i1 -> "invoice"
                         [] d = c1 -> "credit_note"
                         [] d = d1 -> "debit_note"]

Submitting == {"create", "sign", "submit", "queue"}
Answering  == {"create", "sign", "submit", "queue", "accept", "reject"}

Symmetry == Permutations(Requests) \cup Permutations(Workers)
=============================================================================
