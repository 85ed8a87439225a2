---------------------------- MODULE MCPdfDownload ----------------------------
(* Small instances of PdfDownload: requests are interchangeable, and so    *)
(* are downloads.                                                          *)
EXTENDS PdfDownload, TLC

CONSTANTS i1, c1, d1

MCDocType ==
  [d \in Documents |-> CASE d = i1 -> "invoice"
                         [] d = c1 -> "credit_note"
                         [] d = d1 -> "debit_note"]

AllOperations == Operations

Symmetry == Permutations(Requests) \cup Permutations(Downloads)
=============================================================================
