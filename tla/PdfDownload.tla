----------------------------- MODULE PdfDownload -----------------------------
(***************************************************************************)
(* GET /{invoices,credit-notes,debit-notes}/{id}/pdf (get_or_generate_pdf  *)
(* of the three services), beside the handlers of DocumentWorkflow.  The   *)
(* first download renders the document as it is, stores the file, and then *)
(* its path in the row; later downloads return the stored file, whatever   *)
(* the document has become.                                                *)
(***************************************************************************)
EXTENDS DocumentWorkflow

CONSTANT Downloads  \* the requests for a PDF that may arrive, each once

VARIABLES
  pdfPath,  \* the documents whose row has a pdf_path
  pdfFile,  \* what each document's PDF file shows
  download  \* where each download is

pdfVars     == <<pdfPath, pdfFile, download>>
printedVars == <<vars, pdfVars>>

(* What a PDF shows: draft status puts a notice on it.                     *)
Printout == [status : Status, header : Writer, totals : Writer,
             lines : SUBSET Requests]

ASSUME PdfAssumption == None \notin Printout

DownloadFinished == {"served", "crashed"}
DownloadWorking  == {"cached", "read", "collected", "saved"}

Download ==
  [pc   : {"idle"} \cup DownloadWorking \cup DownloadFinished,
   doc  : Documents \cup {None},
   page : Printout \cup {None}]

PdfInit ==
  /\ Init
  /\ pdfPath = {}
  /\ pdfFile = [d \in Documents |-> None]
  /\ download = [g \in Downloads |->
                   [pc |-> "idle", doc |-> None, page |-> None]]

(* The row is read; with a pdf_path, nothing else of it is used.           *)
BeginDownload(g, d) ==
  /\ download[g].pc = "idle"
  /\ row[d].status # "absent"
  /\ download' = [download EXCEPT ![g] =
       IF d \in pdfPath
         THEN [pc |-> "cached", doc |-> d, page |-> None]
         ELSE [pc |-> "read", doc |-> d,
               page |-> [status |-> row[d].status, header |-> row[d].header,
                         totals |-> row[d].totals, lines |-> {}]]]
  /\ UNCHANGED <<vars, pdfPath, pdfFile>>

(* storage.read_file(pdf_path)                                             *)
ReadPdf(g) ==
  /\ download[g].pc = "cached"
  /\ download' = [download EXCEPT ![g].pc = "served",
                                  ![g].page = pdfFile[download[g].doc]]
  /\ UNCHANGED <<vars, pdfPath, pdfFile>>

(* The lines are read after the row, in a statement of their own.          *)
ReadLinesToPrint(g) ==
  /\ download[g].pc = "read"
  /\ download' = [download EXCEPT ![g].pc = "collected",
                                  ![g].page.lines = lines[download[g].doc]]
  /\ UNCHANGED <<vars, pdfPath, pdfFile>>

(* The page is rendered and replaces the file, if another download has     *)
(* stored one meanwhile.                                                   *)
SavePdf(g) ==
  /\ download[g].pc = "collected"
  /\ pdfFile' = [pdfFile EXCEPT ![download[g].doc] = download[g].page]
  /\ download' = [download EXCEPT ![g].pc = "saved"]
  /\ UNCHANGED <<vars, pdfPath>>

(* Fault: the path is committed before the file is written.                *)
CommitPathFirst(g) ==
  /\ download[g].pc = "collected"
  /\ lock[download[g].doc] = None
  /\ pdfPath' = pdfPath \cup {download[g].doc}
  /\ download' = [download EXCEPT ![g].pc = "served"]
  /\ UNCHANGED <<vars, pdfFile>>

(* UPDATE of pdf_path alone: it waits for a request that has locked the    *)
(* row.  The download returns the page it rendered itself.                 *)
CommitPath(g) ==
  /\ download[g].pc = "saved"
  /\ lock[download[g].doc] = None
  /\ pdfPath' = pdfPath \cup {download[g].doc}
  /\ download' = [download EXCEPT ![g].pc = "served"]
  /\ UNCHANGED <<vars, pdfFile>>

(* The process dies: a file may stay without a path.                       *)
CrashDownload(g) ==
  /\ download[g].pc \in DownloadWorking
  /\ crashes < MaxCrashes
  /\ crashes' = crashes + 1
  /\ download' = [download EXCEPT ![g] =
                    [pc |-> "crashed", doc |-> None, page |-> None]]
  /\ UNCHANGED <<row, lines, events, xmlFile, lock, broker, audit, req,
                 pdfPath, pdfFile>>

GetOrGeneratePdf(g, type) ==
  \/ \E d \in DocumentsOf(type) : BeginDownload(g, d)
  \/ /\ download[g].pc \in DownloadWorking
     /\ DocType[download[g].doc] = type
     /\ ReadPdf(g) \/ ReadLinesToPrint(g) \/ SavePdf(g) \/ CommitPath(g)

InvoicePdf(g)    == GetOrGeneratePdf(g, "invoice")
CreditNotePdf(g) == GetOrGeneratePdf(g, "credit_note")
DebitNotePdf(g)  == GetOrGeneratePdf(g, "debit_note")

GetPdf(g) == InvoicePdf(g) \/ CreditNotePdf(g) \/ DebitNotePdf(g)

PdfNext ==
  \/ Next /\ UNCHANGED pdfVars
  \/ \E g \in Downloads : GetPdf(g) \/ CrashDownload(g)

PdfSpec == PdfInit /\ [][PdfNext]_printedVars

-----------------------------------------------------------------------------
PdfTypeOK ==
  /\ TypeOK
  /\ pdfPath \subseteq Documents
  /\ pdfFile \in [Documents -> Printout \cup {None}]
  /\ download \in [Downloads -> Download]

(* Every printout in a file or in the hands of a client, with its document *)
Printouts ==
  {<<d, pdfFile[d]>> : d \in {c \in Documents : pdfFile[c] # None}} \cup
  {<<download[g].doc, download[g].page>> :
     g \in {h \in Downloads : download[h].pc = "served"}}

(* A pdf_path always leads to a file, wherever a download dies: otherwise  *)
(* every later download of the document would end in an error.             *)
PdfPathsLeadToFiles ==
  /\ \A d \in pdfPath : pdfFile[d] # None
  /\ \A p \in Printouts : p[2] # None

(* A page that says its document is signed, submitted or answered shows    *)
(* the content that was signed, although row and lines are read apart and  *)
(* downloads replace each other's files, as long as requests that change   *)
(* documents do not overlap.                                               *)
IssuedPagesShowSignedContent ==
  \A p \in Printouts :
    p[2].status \in IssuedStatuses =>
      row[p[1]].signature =
        [header |-> p[2].header, totals |-> p[2].totals, lines |-> p[2].lines]

(* A page shows a status that its document really had at some time.        *)
PagesShowReachedStatuses ==
  \A p \in Printouts : Reached(p[1], p[2].status)
=============================================================================
