------------------------------ MODULE PdfProofs ------------------------------
(***************************************************************************)
(* Theorems about PdfDownload, for any number of downloads, requests,      *)
(* documents and deaths: a path leads to a file, and no page shows a       *)
(* status that its document never had.  When the requests that change      *)
(* documents do not overlap, what a page calls signed is what was signed.  *)
(***************************************************************************)
EXTENDS PdfDownload, DocumentWorkflowProofs

-----------------------------------------------------------------------------
(* The inductive invariant *)

(* A download has a document; it has a page, of a status that the document *)
(* had, from when it has read the row until it is answered; and where it   *)
(* relies on a file, there is one.                                         *)
HasPage(g) ==
  /\ download[g].pc \in DownloadWorking \cup {"served"} =>
       download[g].doc \in Documents
  /\ download[g].pc \in {"read", "collected", "saved", "served"} =>
       /\ download[g].page # None
       /\ Reached(download[g].doc, download[g].page.status)
  /\ download[g].pc \in {"cached", "saved"} =>
       pdfFile[download[g].doc] # None

DownloadsHavePages == \A g \in Downloads : HasPage(g)

FilesShowReachedStatuses ==
  \A d \in Documents :
    pdfFile[d] # None => Reached(d, pdfFile[d].status)

PathsHaveFiles == \A d \in pdfPath : pdfFile[d] # None

PdfInv ==
  /\ WorkflowInv
  /\ PdfTypeOK
  /\ DownloadsHavePages
  /\ FilesShowReachedStatuses
  /\ PathsHaveFiles

-----------------------------------------------------------------------------
(* The steps of a download, without the grouping into endpoints *)

DownloadStep(g) ==
  \/ \E d \in Documents : BeginDownload(g, d)
  \/ ReadPdf(g)
  \/ ReadLinesToPrint(g)
  \/ SavePdf(g)
  \/ CommitPath(g)
  \/ CrashDownload(g)

(* Every step of the system is one of a handler or one of these.           *)
LEMMA PdfNextIsStep ==
  ASSUME PdfNext
  PROVE  \/ Next /\ UNCHANGED pdfVars
         \/ \E g \in Downloads : DownloadStep(g)
BY DEF PdfNext, GetPdf, InvoicePdf, CreditNotePdf, DebitNotePdf,
       GetOrGeneratePdf, DocumentsOf, DownloadStep

(* A download leaves the handlers and the histories as they are.           *)
LEMMA DownloadKeepsWorkflow ==
  ASSUME WorkflowInv, NEW g \in Downloads, DownloadStep(g)
  PROVE  /\ WorkflowInv'
         /\ \A d, s : Reached(d, s)' <=> Reached(d, s)
<1>1. UNCHANGED <<row, lines, events, xmlFile, lock, broker, audit, req>>
  BY DEF DownloadStep, BeginDownload, ReadPdf, ReadLinesToPrint, SavePdf,
         CommitPath, CrashDownload, vars
<1>2. crashes' \in Nat
  BY DEF WorkflowInv, TypeOK, DownloadStep, BeginDownload, ReadPdf,
         ReadLinesToPrint, SavePdf, CommitPath, CrashDownload, vars
<1>3. \A d, s : Reached(d, s)' <=> Reached(d, s)
  BY <1>1 DEF Reached
<1>4. broker' \subseteq Message
  BY <1>1 DEF WorkflowInv, TypeOK
<1> QED
  BY <1>1, <1>2, <1>3, <1>4, HandlersUndisturbed

-----------------------------------------------------------------------------
(* What a step does to the record of its download *)

(* A download takes a record of its own.                                   *)
LEMMA Renew ==
  ASSUME PdfTypeOK, NEW g \in Downloads, NEW new \in Download,
         download' = [download EXCEPT ![g] = new]
  PROVE  /\ download' \in [Downloads -> Download]
         /\ download'[g] = new
         /\ \A h \in Downloads : h # g => download'[h] = download[h]
BY DEF PdfTypeOK

(* A row as it is read makes a page without lines.                         *)
LEMMA BeginEffect ==
  ASSUME PdfAssumption, PdfInv, NEW g \in Downloads, NEW d \in Documents,
         BeginDownload(g, d)
  PROVE  /\ download' \in [Downloads -> Download]
         /\ \A h \in Downloads : h # g => download'[h] = download[h]
         /\ download'[g].doc = d
         /\ \/ download'[g].pc = "cached" /\ pdfFile[d] # None
            \/ /\ download'[g].pc = "read"
               /\ download'[g].page # None
               /\ Reached(d, download'[g].page.status)
<1> DEFINE page == [status |-> row[d].status, header |-> row[d].header,
                    totals |-> row[d].totals, lines |-> {}]
<1>1. row[d] \in Row
  BY DEF PdfInv, PdfTypeOK, TypeOK
<1>2. page \in Printout /\ page.status = row[d].status
  BY <1>1 DEF Row, Printout
<1>3. Reached(d, row[d].status)
  BY DEF BeginDownload, PdfInv, WorkflowInv, StatusesWereReached
<1>4. CASE d \in pdfPath
  <2> DEFINE new == [pc |-> "cached", doc |-> d, page |-> None]
  <2>1. new \in Download
    BY DEF Download, DownloadWorking
  <2>2. download' = [download EXCEPT ![g] = new]
    BY <1>4 DEF BeginDownload
  <2>3. new.pc = "cached" /\ new.doc = d
    OBVIOUS
  <2>4. pdfFile[d] # None
    BY <1>4 DEF PdfInv, PathsHaveFiles
  <2> HIDE DEF new
  <2> QED
    BY <2>1, <2>2, <2>3, <2>4, Renew DEF PdfInv
<1>5. CASE d \notin pdfPath
  <2> HIDE DEF page
  <2> DEFINE new == [pc |-> "read", doc |-> d, page |-> page]
  <2>1. new \in Download
    BY <1>2 DEF Download, DownloadWorking
  <2>2. download' = [download EXCEPT ![g] = new]
    BY <1>5 DEF BeginDownload, page
  <2>3. new.pc = "read" /\ new.doc = d /\ new.page = page
    OBVIOUS
  <2>4. page # None
    BY <1>2 DEF PdfAssumption
  <2> HIDE DEF new
  <2> QED
    BY <1>2, <1>3, <2>1, <2>2, <2>3, <2>4, Renew DEF PdfInv
<1> QED
  BY <1>4, <1>5

(* A download that goes on keeps its document, and its page unless it      *)
(* reads the file or the lines.                                            *)
LEMMA GoOnEffect ==
  ASSUME PdfAssumption, PdfInv, NEW g \in Downloads,
         ReadPdf(g) \/ ReadLinesToPrint(g) \/ SavePdf(g) \/ CommitPath(g)
  PROVE  /\ download' \in [Downloads -> Download]
         /\ \A h \in Downloads : h # g => download'[h] = download[h]
         /\ download[g].pc \in DownloadWorking
         /\ download'[g].doc = download[g].doc
         /\ download'[g].page # None
         /\ Reached(download[g].doc, download'[g].page.status)
         /\ ReadPdf(g) \/ CommitPath(g) => download'[g].pc = "served"
         /\ ReadLinesToPrint(g) => download'[g].pc = "collected"
         /\ SavePdf(g) =>
              download'[g].pc = "saved" /\ download'[g].page = download[g].page
<1>1. download[g] \in Download
  BY DEF PdfInv, PdfTypeOK
<1>2. /\ download[g].pc \in DownloadWorking
      /\ download[g].doc \in Documents
  BY DEF PdfInv, DownloadsHavePages, HasPage, ReadPdf, ReadLinesToPrint,
         SavePdf,
         CommitPath, DownloadWorking
<1>3. ASSUME NEW pc \in {"collected", "saved", "served"},
             NEW page \in Printout,
             Reached(download[g].doc, page.status),
             download' = [download EXCEPT ![g].pc = pc, ![g].page = page]
      PROVE  /\ download' \in [Downloads -> Download]
             /\ \A h \in Downloads : h # g => download'[h] = download[h]
             /\ download'[g].doc = download[g].doc
             /\ download'[g].page = page
             /\ download'[g].page # None
             /\ Reached(download[g].doc, download'[g].page.status)
             /\ download'[g].pc = pc
  <2> DEFINE new == [download[g] EXCEPT !.pc = pc, !.page = page]
  <2>1. new \in Download
    BY <1>1 DEF Download, DownloadWorking, DownloadFinished
  <2>2. new.pc = pc /\ new.doc = download[g].doc /\ new.page = page
    BY <1>1 DEF Download
  <2>3. download' = [download EXCEPT ![g] = new]
    BY <1>1, <1>3 DEF PdfInv, PdfTypeOK, Download
  <2> HIDE DEF new
  <2>4. page # None
    BY DEF PdfAssumption
  <2> QED
    BY <1>3, <2>1, <2>2, <2>3, <2>4, Renew DEF PdfInv
<1>4. ASSUME NEW pc \in {"saved", "served"},
             download[g].pc \in {"saved", "collected"},
             download' = [download EXCEPT ![g].pc = pc]
      PROVE  /\ download' \in [Downloads -> Download]
             /\ \A h \in Downloads : h # g => download'[h] = download[h]
             /\ download'[g].doc = download[g].doc
             /\ download'[g].page = download[g].page
             /\ download'[g].page # None
             /\ Reached(download[g].doc, download'[g].page.status)
             /\ download'[g].pc = pc
  <2> DEFINE new == [download[g] EXCEPT !.pc = pc]
  <2>1. new \in Download
    BY <1>1 DEF Download, DownloadWorking, DownloadFinished
  <2>2. /\ new.pc = pc
        /\ new.doc = download[g].doc
        /\ new.page = download[g].page
    BY <1>1 DEF Download
  <2>3. download' = [download EXCEPT ![g] = new]
    BY <1>4
  <2>4. /\ download[g].page # None
        /\ Reached(download[g].doc, download[g].page.status)
    BY <1>4 DEF PdfInv, DownloadsHavePages, HasPage
  <2> HIDE DEF new
  <2> QED
    BY <2>1, <2>2, <2>3, <2>4, Renew DEF PdfInv
<1>5. CASE ReadPdf(g)
  <2> DEFINE page == pdfFile[download[g].doc]
  <2>1. page # None
    BY <1>5 DEF ReadPdf, PdfInv, DownloadsHavePages, HasPage
  <2>2. page \in Printout
    BY <1>2, <2>1 DEF PdfInv, PdfTypeOK
  <2>3. Reached(download[g].doc, page.status)
    BY <1>2, <2>1 DEF PdfInv, FilesShowReachedStatuses
  <2> QED
    BY <1>2, <1>3, <1>5, <2>2, <2>3 DEF ReadPdf, ReadLinesToPrint, SavePdf,
       CommitPath
<1>6. CASE ReadLinesToPrint(g)
  <2> DEFINE stored == lines[download[g].doc]
             page   == [download[g].page EXCEPT !.lines = stored]
  <2>1. /\ download[g].page \in Printout
        /\ Reached(download[g].doc, download[g].page.status)
    BY <1>1, <1>6
    DEF ReadLinesToPrint, PdfInv, DownloadsHavePages, HasPage, Download
  <2>2. stored \in SUBSET Requests
    BY <1>2 DEF PdfInv, PdfTypeOK, TypeOK
  <2>3. page \in Printout /\ page.status = download[g].page.status
    BY <2>1, <2>2 DEF Printout
  <2>4. download' = [download EXCEPT ![g].pc = "collected", ![g].page = page]
    BY <1>1, <1>6 DEF ReadLinesToPrint, PdfInv, PdfTypeOK, Download
  <2> HIDE DEF page
  <2> QED
    BY <1>2, <1>3, <1>6, <2>1, <2>3, <2>4 DEF ReadLinesToPrint, ReadPdf,
       SavePdf, CommitPath
<1>7. CASE SavePdf(g) \/ CommitPath(g)
  BY <1>2, <1>4, <1>7 DEF SavePdf, CommitPath, ReadPdf, ReadLinesToPrint
<1> QED
  BY <1>5, <1>6, <1>7

(* What becomes of the files and the paths.                                *)
LEMMA FilesEffect ==
  ASSUME PdfAssumption, PdfInv, NEW g \in Downloads, DownloadStep(g)
  PROVE  /\ pdfFile' \in [Documents -> Printout \cup {None}]
         /\ pdfPath' \subseteq Documents
         /\ \A d \in Documents : pdfFile[d] # None => pdfFile'[d] # None
         /\ FilesShowReachedStatuses'
         /\ PathsHaveFiles'
         /\ SavePdf(g) => pdfFile'[download[g].doc] # None
<1>1. \A d, s : Reached(d, s)' <=> Reached(d, s)
  BY DownloadKeepsWorkflow DEF PdfInv
<1>2. CASE SavePdf(g)
  <2> DEFINE d == download[g].doc
             page == download[g].page
  <2>1. d \in Documents /\ page # None /\ Reached(d, page.status)
    BY <1>2 DEF SavePdf, PdfInv, DownloadsHavePages, HasPage, DownloadWorking
  <2>2. page \in Printout
    BY <2>1 DEF PdfInv, PdfTypeOK, Download
  <2>3. pdfFile' = [pdfFile EXCEPT ![d] = page] /\ pdfPath' = pdfPath
    BY <1>2 DEF SavePdf
  <2>4. /\ pdfFile' \in [Documents -> Printout \cup {None}]
        /\ pdfFile'[d] = page
        /\ \A c \in Documents : c # d => pdfFile'[c] = pdfFile[c]
    BY <2>1, <2>2, <2>3 DEF PdfInv, PdfTypeOK
  <2>5. FilesShowReachedStatuses'
    BY <1>1, <2>1, <2>4 DEF PdfInv, FilesShowReachedStatuses
  <2>6. PathsHaveFiles' /\ pdfPath' \subseteq Documents
    BY <2>1, <2>3, <2>4 DEF PdfInv, PdfTypeOK, PathsHaveFiles
  <2> QED
    BY <2>1, <2>4, <2>5, <2>6
<1>3. CASE CommitPath(g)
  <2>1. /\ download[g].doc \in Documents
        /\ pdfFile[download[g].doc] # None
    BY <1>3 DEF CommitPath, PdfInv, DownloadsHavePages, HasPage, DownloadWorking
  <2>2. /\ pdfFile' = pdfFile
        /\ pdfPath' = pdfPath \cup {download[g].doc}
    BY <1>3 DEF CommitPath
  <2>3. FilesShowReachedStatuses'
    BY <1>1, <2>2 DEF PdfInv, FilesShowReachedStatuses
  <2> QED
    BY <1>3, <2>1, <2>2, <2>3
    DEF PdfInv, PdfTypeOK, PathsHaveFiles, SavePdf, CommitPath
<1>4. CASE UNCHANGED <<pdfFile, pdfPath>> /\ ~SavePdf(g)
  BY <1>1, <1>4 DEF PdfInv, PdfTypeOK, FilesShowReachedStatuses, PathsHaveFiles
<1> QED
  BY <1>2, <1>3, <1>4 DEF DownloadStep, BeginDownload, ReadPdf,
     ReadLinesToPrint, CrashDownload

-----------------------------------------------------------------------------
(* Every step keeps the invariant *)

(* Every step of a download keeps the inductive invariant.                 *)
LEMMA DownloadStepKeeps ==
  ASSUME PdfAssumption, PdfInv, NEW g \in Downloads, DownloadStep(g)
  PROVE  PdfInv'
<1>1. /\ WorkflowInv'
      /\ \A d, s : Reached(d, s)' <=> Reached(d, s)
  BY DownloadKeepsWorkflow DEF PdfInv
<1>2. /\ download' \in [Downloads -> Download]
      /\ \A h \in Downloads : h # g => download'[h] = download[h]
      /\ \/ download'[g].pc = "crashed"
         \/ /\ download'[g].doc \in Documents
            /\ \/ download'[g].pc = "cached" /\ pdfFile[download'[g].doc] # None
               \/ /\ download'[g].pc \in {"read", "collected", "served"}
                  /\ download'[g].page # None
                  /\ Reached(download'[g].doc, download'[g].page.status)
               \/ /\ download'[g].pc = "saved"
                  /\ SavePdf(g)
                  /\ download'[g].doc = download[g].doc
                  /\ download'[g].page # None
                  /\ Reached(download'[g].doc, download'[g].page.status)
  <2>1. CASE \E d \in Documents : BeginDownload(g, d)
    BY <2>1, BeginEffect
  <2>2. CASE ReadPdf(g) \/ ReadLinesToPrint(g) \/ SavePdf(g) \/ CommitPath(g)
    <3>1. download[g].doc \in Documents
      BY <2>2, GoOnEffect DEF PdfInv, DownloadsHavePages, HasPage
    <3> QED
      BY <2>2, <3>1, GoOnEffect
  <2>3. CASE CrashDownload(g)
    <3> DEFINE new == [pc |-> "crashed", doc |-> None, page |-> None]
    <3>1. new \in Download /\ new.pc = "crashed"
      BY DEF Download, DownloadFinished
    <3>2. download' = [download EXCEPT ![g] = new]
      BY <2>3 DEF CrashDownload
    <3> HIDE DEF new
    <3> QED
      BY <3>1, <3>2, Renew DEF PdfInv
  <2> QED
    BY <2>1, <2>2, <2>3 DEF DownloadStep
<1>3. PdfTypeOK'
  BY <1>1, <1>2, FilesEffect DEF PdfTypeOK, WorkflowInv
<1>4. DownloadsHavePages'
  <2>1. ASSUME NEW h \in Downloads, h # g PROVE HasPage(h)'
    <3>1. download'[h] = download[h] /\ HasPage(h)
      BY <1>2, <2>1 DEF PdfInv, DownloadsHavePages
    <3> QED
      BY <1>1, <3>1, FilesEffect DEF HasPage, DownloadWorking
  <2>2. HasPage(g)'
    BY <1>1, <1>2, FilesEffect DEF HasPage, DownloadWorking
  <2> QED
    BY <2>1, <2>2 DEF DownloadsHavePages
<1> QED
  BY <1>1, <1>3, <1>4, FilesEffect DEF PdfInv

(* What a handler does takes no event away, and leaves the pages alone.    *)
LEMMA HandlerStepKeeps ==
  ASSUME WorkflowAssumption, PdfInv, Next, UNCHANGED pdfVars
  PROVE  PdfInv'
<1>1. WorkflowInv'
  BY WorkflowStep DEF PdfInv
<1>2. \A d \in Documents : \A s : Reached(d, s) => Reached(d, s)'
  BY NextIsStep, HistoryGrows DEF PdfInv, WorkflowInv
<1>3. UNCHANGED pdfPath /\ UNCHANGED pdfFile /\ UNCHANGED download
  BY DEF pdfVars
<1>4. PdfTypeOK'
  BY <1>1, <1>3 DEF PdfInv, PdfTypeOK, WorkflowInv
<1>5. DownloadsHavePages'
  BY <1>2, <1>3 DEF PdfInv, DownloadsHavePages, HasPage, DownloadWorking
<1>6. FilesShowReachedStatuses' /\ PathsHaveFiles'
  BY <1>2, <1>3 DEF PdfInv, FilesShowReachedStatuses, PathsHaveFiles
<1> QED
  BY <1>1, <1>4, <1>5, <1>6 DEF PdfInv

(* The initial states satisfy the invariant.                               *)
LEMMA PdfInitially == ASSUME WorkflowAssumption, PdfInit PROVE PdfInv
<1>1. WorkflowInv
  BY WorkflowInit DEF PdfInit
<1>2. PdfTypeOK
  BY <1>1 DEF PdfInit, PdfTypeOK, WorkflowInv, Download
<1>3. DownloadsHavePages
  BY DEF PdfInit, DownloadsHavePages, HasPage, DownloadWorking
<1> QED
  BY <1>1, <1>2, <1>3
  DEF PdfInit, PdfInv, FilesShowReachedStatuses, PathsHaveFiles

-----------------------------------------------------------------------------
(* The theorems *)

(* The inductive invariant of the downloads beside the handlers.           *)
THEOREM PdfInvariant == PdfSpec => []PdfInv
<1>1. PdfInit => PdfInv
  BY WorkflowAssumption, PdfInitially
<1>2. PdfInv /\ [PdfNext]_printedVars => PdfInv'
  <2> SUFFICES ASSUME PdfInv, [PdfNext]_printedVars PROVE PdfInv'
    OBVIOUS
  <2>1. CASE Next /\ UNCHANGED pdfVars
    BY <2>1, WorkflowAssumption, HandlerStepKeeps
  <2>2. CASE \E g \in Downloads : DownloadStep(g)
    BY <2>2, PdfAssumption, DownloadStepKeeps
  <2>3. CASE UNCHANGED printedVars
    <3>1. /\ UNCHANGED vars
          /\ UNCHANGED <<row, lines, events, xmlFile, lock, broker, audit, req>>
          /\ UNCHANGED <<pdfPath, pdfFile, download>>
      BY <2>3 DEF printedVars, vars, pdfVars
    <3>2. WorkflowInv'
      BY <3>1, WorkflowAssumption, WorkflowStep DEF PdfInv
    <3>3. PdfTypeOK'
      BY <3>1, <3>2 DEF PdfInv, PdfTypeOK, WorkflowInv
    <3>4. /\ DownloadsHavePages'
          /\ FilesShowReachedStatuses'
          /\ PathsHaveFiles'
      BY <3>1 DEF PdfInv, DownloadsHavePages, HasPage, FilesShowReachedStatuses,
                  PathsHaveFiles, Reached
    <3> QED
      BY <3>2, <3>3, <3>4 DEF PdfInv
  <2> QED
    BY <2>1, <2>2, <2>3, PdfNextIsStep
<1> QED
  BY <1>1, <1>2, PTL DEF PdfSpec

(* The variables keep their types.                                         *)
THEOREM PdfTypes == PdfSpec => []PdfTypeOK
<1>1. PdfInv => PdfTypeOK
  BY DEF PdfInv
<1> QED
  BY <1>1, PdfInvariant, PTL

(* get_or_generate_pdf: a pdf_path leads to a file, and a served download  *)
(* has a page, wherever downloads die.                                     *)
THEOREM PathsLeadToFiles == PdfSpec => []PdfPathsLeadToFiles
<1>1. PdfInv => PdfPathsLeadToFiles
  BY DEF PdfInv, PathsHaveFiles, DownloadsHavePages, HasPage,
         PdfPathsLeadToFiles,
         Printouts
<1> QED
  BY <1>1, PdfInvariant, PTL

(* No page shows a status that its document never had, although it is      *)
(* rendered from a row read before and kept for ever.                      *)
THEOREM PagesShowReached == PdfSpec => []PagesShowReachedStatuses
<1>1. PdfInv => PagesShowReachedStatuses
  BY DEF PdfInv, DownloadsHavePages, HasPage, FilesShowReachedStatuses,
         PagesShowReachedStatuses, Printouts
<1> QED
  BY <1>1, PdfInvariant, PTL

-----------------------------------------------------------------------------
(* Pages of signed documents, when requests do not overlap *)

(* A page that says its document is issued shows what was signed.          *)
ShowsSigned(d, page) ==
  page.status \in IssuedStatuses =>
    /\ row[d].signature # None
    /\ row[d].signature = [header |-> page.header, totals |-> page.totals,
                           lines  |-> page.lines]

(* A page that still lacks its lines shows the header that was signed.     *)
WillShowSigned(d, page) ==
  page.status \in IssuedStatuses =>
    /\ row[d].signature # None
    /\ row[d].header = page.header
    /\ row[d].totals = page.totals

PageIsSound(g) ==
  /\ download[g].pc \in {"collected", "saved", "served"} =>
       ShowsSigned(download[g].doc, download[g].page)
  /\ download[g].pc = "read" =>
       WillShowSigned(download[g].doc, download[g].page)

SerialPdfInv ==
  /\ SerialInv
  /\ \A g \in Downloads : PageIsSound(g)
  /\ \A d \in Documents : pdfFile[d] # None => ShowsSigned(d, pdfFile[d])

(* A download reads a row and its lines at two times: between them what    *)
(* was signed stays.                                                       *)
LEMMA DownloadKeepsPages ==
  ASSUME PdfAssumption, PdfInv, SerialPdfInv, NEW g \in Downloads,
         DownloadStep(g)
  PROVE  SerialPdfInv'
<1>1. UNCHANGED <<row, lines, xmlFile, req>>
  BY DEF DownloadStep, BeginDownload, ReadPdf, ReadLinesToPrint, SavePdf,
         CommitPath, CrashDownload, vars
<1>2. SerialInv'
  BY <1>1, SerialUndisturbed DEF SerialPdfInv
<1>3. \A d, page : /\ ShowsSigned(d, page)' <=> ShowsSigned(d, page)
                  /\ WillShowSigned(d, page)' <=> WillShowSigned(d, page)
  BY <1>1 DEF ShowsSigned, WillShowSigned
<1>4. /\ download \in [Downloads -> Download]
      /\ download[g] \in Download
      /\ pdfFile \in [Documents -> Printout \cup {None}]
      /\ HasPage(g)
      /\ PageIsSound(g)
      /\ \A d \in Documents : pdfFile[d] # None => ShowsSigned(d, pdfFile[d])
  BY DEF PdfInv, PdfTypeOK, DownloadsHavePages, SerialPdfInv
<1>5. \A h \in Downloads : h # g => download'[h] = download[h]
  BY <1>4 DEF DownloadStep, BeginDownload, ReadPdf, ReadLinesToPrint, SavePdf,
              CommitPath, CrashDownload
<1>6. PageIsSound(g)'
  <2>1. ASSUME NEW d \in Documents, BeginDownload(g, d)
        PROVE  PageIsSound(g)'
    <3>1. CASE d \in pdfPath
      BY <1>4, <2>1, <3>1 DEF BeginDownload, PageIsSound
    <3>2. CASE d \notin pdfPath
      <4>1. /\ download'[g].pc = "read"
            /\ download'[g].doc = d
            /\ download'[g].page.status = row[d].status
            /\ download'[g].page.header = row[d].header
            /\ download'[g].page.totals = row[d].totals
        BY <1>4, <2>1, <3>2 DEF BeginDownload
      <4>2. row[d].status \in IssuedStatuses => row[d].signature # None
        BY DEF PdfInv, WorkflowInv, IssuedWereSigned
      <4> QED
        BY <1>1, <4>1, <4>2 DEF PageIsSound, WillShowSigned
    <3> QED
      BY <3>1, <3>2
  <2>2. CASE ReadPdf(g)
    <3>1. PICK d \in Documents : d = download[g].doc
      BY <1>4, <2>2 DEF ReadPdf, HasPage, DownloadWorking
    <3>2. pdfFile[d] # None
      BY <1>4, <2>2, <3>1 DEF ReadPdf, HasPage
    <3>3. /\ download'[g].pc = "served"
          /\ download'[g].doc = d
          /\ download'[g].page = pdfFile[d]
      BY <1>4, <2>2, <3>1 DEF ReadPdf, Download
    <3>4. ShowsSigned(d, pdfFile[d])
      BY <1>4, <3>2
    <3> QED
      BY <1>1, <3>3, <3>4 DEF PageIsSound, ShowsSigned
  <2>3. CASE ReadLinesToPrint(g)
    <3>1. PICK d \in Documents : d = download[g].doc
      BY <1>4, <2>3 DEF ReadLinesToPrint, HasPage, DownloadWorking
    <3>2. download[g].page \in Printout
      BY <1>4, <2>3 DEF ReadLinesToPrint, HasPage, Download
    <3>3. /\ download'[g].pc = "collected"
          /\ download'[g].doc = d
          /\ download'[g].page = [download[g].page EXCEPT !.lines = lines[d]]
      BY <1>4, <2>3, <3>1 DEF ReadLinesToPrint, Download
    <3>4. /\ download'[g].page.status = download[g].page.status
          /\ download'[g].page.header = download[g].page.header
          /\ download'[g].page.totals = download[g].page.totals
          /\ download'[g].page.lines = lines[d]
      BY <3>2, <3>3 DEF Printout
    <3>5. WillShowSigned(d, download[g].page)
      BY <1>4, <2>3, <3>1 DEF ReadLinesToPrint, PageIsSound
    <3>6. row[d].signature # None =>
            row[d].signature = [header |-> row[d].header,
                                totals |-> row[d].totals,
                                lines  |-> lines[d]]
      BY DEF SerialPdfInv, SerialInv, SignedContentIsKept, ContentOf
    <3> QED
      BY <1>1, <3>3, <3>4, <3>5, <3>6 DEF PageIsSound, ShowsSigned,
         WillShowSigned
  <2>4. CASE SavePdf(g) \/ CommitPath(g)
    <3>1. /\ download[g].pc \in {"collected", "saved"}
          /\ download'[g].pc \in {"saved", "served"}
          /\ download'[g].doc = download[g].doc
          /\ download'[g].page = download[g].page
      BY <1>4, <2>4 DEF SavePdf, CommitPath, Download
    <3> QED
      BY <1>1, <1>4, <3>1 DEF PageIsSound, ShowsSigned
  <2>5. CASE CrashDownload(g)
    BY <1>4, <2>5 DEF CrashDownload, PageIsSound
  <2> QED
    BY <2>1, <2>2, <2>3, <2>4, <2>5 DEF DownloadStep
<1>7. \A h \in Downloads : PageIsSound(h)'
  BY <1>1, <1>5, <1>6
  DEF SerialPdfInv, PageIsSound, ShowsSigned, WillShowSigned
<1>8. ASSUME NEW d \in Documents, pdfFile'[d] # None
      PROVE  ShowsSigned(d, pdfFile'[d])
  <2>1. CASE SavePdf(g) /\ d = download[g].doc
    <3>1. pdfFile'[d] = download[g].page
      BY <1>4, <2>1 DEF SavePdf
    <3>2. ShowsSigned(d, download[g].page)
      BY <1>4, <2>1 DEF SavePdf, PageIsSound
    <3> QED
      BY <3>1, <3>2
  <2>2. CASE ~(SavePdf(g) /\ d = download[g].doc)
    <3>1. pdfFile'[d] = pdfFile[d]
      BY <1>4, <2>2 DEF DownloadStep, BeginDownload, ReadPdf, ReadLinesToPrint,
         SavePdf, CommitPath, CrashDownload
    <3> QED
      BY <1>4, <1>8, <3>1
  <2> QED
    BY <2>1, <2>2
<1> QED
  BY <1>1, <1>2, <1>7, <1>8 DEF SerialPdfInv, ShowsSigned

(* A handler leaves signed content alone.                                  *)
LEMMA HandlerKeepsPages ==
  ASSUME WorkflowAssumption, MaxInFlight = 1, PdfInv, SerialPdfInv,
         Next, UNCHANGED pdfVars
  PROVE  SerialPdfInv'
<1>1. PICK r \in Requests : Step(r)
  BY NextIsStep
<1>2. SerialInv'
  BY SerialStep DEF PdfInv, SerialPdfInv
<1>3. \A d \in Documents : row[d].signature # None =>
        /\ row'[d].signature = row[d].signature
        /\ row'[d].header = row[d].header
        /\ row'[d].totals = row[d].totals
  <2>1. \A d \in Documents : row[d].signature # None =>
          /\ row'[d].signature = row[d].signature
          /\ ContentOf(d)' = ContentOf(d)
    BY <1>1, DraftsAreUnsignedStep
    DEF PdfInv, WorkflowInv, SerialPdfInv, SerialInv
  <2> QED
    BY <2>1 DEF ContentOf
<1>4. pdfFile' = pdfFile /\ download' = download
  BY DEF pdfVars
<1>5. ASSUME NEW g \in Downloads PROVE PageIsSound(g)'
  <2>1. CASE download[g].pc \in {"read", "collected", "saved", "served"}
    <3>1. PICK d \in Documents : d = download[g].doc
      BY <2>1 DEF PdfInv, DownloadsHavePages, HasPage, DownloadWorking
    <3> QED
      BY <1>3, <1>4, <3>1
      DEF SerialPdfInv, PageIsSound, ShowsSigned, WillShowSigned
  <2>2. CASE download[g].pc \notin {"read", "collected", "saved", "served"}
    BY <1>4, <2>2 DEF PageIsSound
  <2> QED
    BY <2>1, <2>2
<1>6. \A d \in Documents : pdfFile'[d] # None =>
        /\ pdfFile'[d].status \in IssuedStatuses =>
             /\ row'[d].signature # None
             /\ row'[d].signature = [header |-> pdfFile'[d].header,
                                     totals |-> pdfFile'[d].totals,
                                     lines  |-> pdfFile'[d].lines]
  BY <1>3, <1>4 DEF SerialPdfInv, ShowsSigned
<1> QED
  BY <1>2, <1>5, <1>6 DEF SerialPdfInv, ShowsSigned

(* get_or_generate_pdf: as long as the requests that change documents do   *)
(* not overlap, a page that says its document is signed, submitted or      *)
(* answered shows what was signed, whatever downloads run beside them.     *)
THEOREM IssuedPagesShowSigned ==
  ASSUME MaxInFlight = 1
  PROVE  PdfSpec => []IssuedPagesShowSignedContent
<1>1. PdfInit => SerialPdfInv
  BY SerialInit DEF PdfInit, SerialPdfInv, PageIsSound
<1>2. PdfInv /\ SerialPdfInv /\ [PdfNext]_printedVars => SerialPdfInv'
  <2> SUFFICES ASSUME PdfInv, SerialPdfInv, [PdfNext]_printedVars
               PROVE  SerialPdfInv'
    OBVIOUS
  <2>1. CASE Next /\ UNCHANGED pdfVars
    BY <2>1, WorkflowAssumption, HandlerKeepsPages
  <2>2. CASE \E g \in Downloads : DownloadStep(g)
    BY <2>2, PdfAssumption, DownloadKeepsPages
  <2>3. CASE UNCHANGED printedVars
    <3>1. SerialInv'
      BY <2>3, SerialUndisturbed DEF printedVars, vars, SerialPdfInv
    <3> QED
      BY <2>3, <3>1 DEF printedVars, vars, pdfVars, SerialPdfInv, PageIsSound,
         ShowsSigned, WillShowSigned
  <2> QED
    BY <2>1, <2>2, <2>3, PdfNextIsStep
<1>3. SerialPdfInv => IssuedPagesShowSignedContent
  BY DEF SerialPdfInv, PageIsSound, ShowsSigned, IssuedPagesShowSignedContent,
         Printouts
<1> QED
  BY <1>1, <1>2, <1>3, PdfInvariant, PTL DEF PdfSpec

=============================================================================
