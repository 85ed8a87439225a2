-------------------------- MODULE DocumentWorkflow --------------------------
(***************************************************************************)
(* The HTTP handlers that create, edit, transition and queue documents     *)
(* (invoice_service, credit_note_service, debit_note_service and           *)
(* document_workflow_service), each request being served by one thread     *)
(* with one READ COMMITTED database session.                               *)
(*                                                                         *)
(* A handler is a sequence of steps between which other requests run: it   *)
(* reads the document's row, decides on what it read, reads the lines,     *)
(* writes the XML file, commits, and commits the audit entry in a second   *)
(* transaction.  No handler locks the row it read, and an UPDATE names the *)
(* row's id only, so a commit applies to whatever the row has become.      *)
(*                                                                         *)
(* The content of a document is abstracted to who wrote it: the id of the  *)
(* request that last wrote its header fields, of the request whose lines   *)
(* its totals were computed from, and of the requests that inserted the    *)
(* lines it has.                                                           *)
(***************************************************************************)
EXTENDS DocumentStateMachine, Sequences, FiniteSets, Integers

CONSTANTS
  Requests,     \* the HTTP requests that may arrive, each served once
  Documents,    \* the ids of the documents that may come to exist
  DocType,      \* DocType[d] is the kind of document d is
  None,         \* the SQL NULL, and the absence of a file
  Offered,      \* the operations clients ask for
  MaxInFlight,  \* how many requests may be in progress at once
  MaxCrashes,   \* how many requests may die half-way
  TaskAcceptsDocumentId  \* does Celery accept <task>.delay(str(document.id))?

Operations == {"create", "update", "queue"} \cup TransitionAction

(* The content of a document, or of an XML file                            *)
Writer  == Requests \cup {None}
Content == [header : Writer, totals : Writer, lines : SUBSET Requests]

ASSUME WorkflowAssumption ==
  /\ DocType \in [Documents -> DocumentType]
  /\ None \notin Requests \cup Documents \cup Content
  /\ Offered \subseteq Operations
  /\ MaxInFlight \in Nat
  /\ MaxCrashes \in Nat
  /\ TaskAcceptsDocumentId \in BOOLEAN

VARIABLES
  row,      \* the documents' rows, as committed
  lines,    \* the requests whose lines are stored for each document
  events,   \* the committed document_events of each document, in order
  xmlFile,  \* the content of each document's XML file
  lock,     \* the request whose open transaction has updated the row
  broker,   \* the submit tasks published and not yet taken
  audit,    \* the requests with a committed audit_logs entry
  req,      \* where each request is and what it has read
  crashes   \* how many requests have died

database == <<row, lines, events>>
vars == <<row, lines, events, xmlFile, lock, broker, audit, req, crashes>>

(* "absent" is the status of an id for which no row is committed *)
Status == DocumentStatus \cup {"absent"}

Row ==
  [status    : Status,
   header    : Writer,
   totals    : Writer,
   signature : Content \cup {None},  \* cufe/cude and xml_path, set together
   reference : Documents \cup {None},  \* invoice_id of a note
   response  : {None, "accepted", "rejected"}]  \* dian_response

Event == [type : DocumentEventType, from : Status, to : Status]

(* A PATCH body: are header fields set, and what happens to the lines?     *)
Edit   == [header : BOOLEAN, lines : {"keep", "replace", "clear"}]
NoEdit == [header |-> FALSE, lines |-> "keep"]

(* A submit task: who published it, for which document, and how many times *)
(* Celery has retried it.                                                  *)
Message == [id : Requests, doc : Documents, retries : Nat]

Finished == {"served", "refused", "failed", "crashed"}
Working  == {"read", "flushed", "collected", "saved", "published", "committed"}

Request ==
  [pc     : {"idle"} \cup Working \cup Finished,
   op     : Operations \cup {None},
   type   : DocumentType \cup {None},
   doc    : Documents \cup {None},
   edit   : Edit,
   status : Status,
   header : Writer,
   totals : Writer,
   lines  : SUBSET Requests]

NoRow == [status |-> "absent", header |-> None, totals |-> None,
          signature |-> None, reference |-> None, response |-> None]

Idle == [pc |-> "idle", op |-> None, type |-> None, doc |-> None,
         edit |-> NoEdit, status |-> "absent", header |-> None,
         totals |-> None, lines |-> {}]

Init ==
  /\ row = [d \in Documents |-> NoRow]
  /\ lines = [d \in Documents |-> {}]
  /\ events = [d \in Documents |-> <<>>]
  /\ xmlFile = [d \in Documents |-> None]
  /\ lock = [d \in Documents |-> None]
  /\ broker = {}
  /\ audit = {}
  /\ req = [r \in Requests |-> Idle]
  /\ crashes = 0

DocumentsOf(type) == {d \in Documents : DocType[d] = type}

-----------------------------------------------------------------------------
(* The life of a request *)

InFlight == {r \in Requests : req[r].pc \in Working}

Arrives(r, op) ==
  /\ op \in Offered
  /\ req[r].pc = "idle"
  /\ Cardinality(InFlight) < MaxInFlight

(* session.get(Invoice | CreditNote | DebitNote, id): the handler keeps    *)
(* the row as it is committed now.                                         *)
Load(r, op, type, d, edit) ==
  req' = [req EXCEPT ![r] =
            [pc |-> "read", op |-> op, type |-> type, doc |-> d,
             edit |-> edit, status |-> row[d].status,
             header |-> row[d].header, totals |-> row[d].totals,
             lines |-> {}]]

Goto(r, pc) == req' = [req EXCEPT ![r].pc = pc]

(* The response is sent and the session closed.                            *)
Finish(r, outcome) == req' = [req EXCEPT ![r] = [Idle EXCEPT !.pc = outcome]]

(* The request's transaction may update the row: nobody else holds it.     *)
RowFree(d, r) == lock[d] \in {None, r}

(* Fault: the row stays locked.                                            *)
UnlockForgotten(d, r) == UNCHANGED lock

Unlock(d, r) == lock' = [lock EXCEPT ![d] = IF @ = r THEN None ELSE @]

(* Fault: the entry is added to the session and never committed.           *)
ForgetAudit(r) ==
  /\ req[r].pc = "committed"
  /\ Finish(r, "served")
  /\ UNCHANGED <<row, lines, events, xmlFile, lock, broker, audit, crashes>>

(* AuditService.log: a transaction of its own, after the handler's commit. *)
WriteAudit(r) ==
  /\ req[r].pc = "committed"
  /\ audit' = audit \cup {r}
  /\ Finish(r, "served")
  /\ UNCHANGED <<row, lines, events, xmlFile, lock, broker, crashes>>

(* The process serving the request dies, or loses its database connection: *)
(* the open transaction is rolled back, files and messages stay.           *)
Crash(r) ==
  /\ req[r].pc \in Working
  /\ crashes < MaxCrashes
  /\ crashes' = crashes + 1
  /\ Unlock(req[r].doc, r)
  /\ Finish(r, "crashed")
  /\ UNCHANGED <<row, lines, events, xmlFile, broker, audit>>

(* Fault: the two statuses are swapped.                                    *)
RecordEventSwapped(d, type, from, to) ==
  events' = [events EXCEPT ![d] =
               Append(@, [type |-> type, from |-> to, to |-> from])]

(* Fault: the old status is read after it has been overwritten.            *)
RecordEventTooLate(d, type, from, to) ==
  events' = [events EXCEPT ![d] =
               Append(@, [type |-> type, from |-> to, to |-> to])]

(* record_event: the event joins the transaction that is about to commit.  *)
RecordEvent(d, type, from, to) ==
  events' = [events EXCEPT ![d] =
               Append(@, [type |-> type, from |-> from, to |-> to])]

-----------------------------------------------------------------------------
(* POST /invoices, /credit-notes, /debit-notes *)

(* The new row, its lines and its CREATED event, committed together.       *)
InsertDocument(r, d, reference) ==
  /\ row[d].status = "absent"
  /\ row' = [row EXCEPT ![d] =
               [NoRow EXCEPT !.status = "draft", !.header = r, !.totals = r,
                             !.reference = reference]]
  /\ lines' = [lines EXCEPT ![d] = {r}]
  /\ RecordEvent(d, "created", "absent", "draft")
  /\ UNCHANGED <<xmlFile, lock, broker, audit, crashes>>

CreateInvoice(r) ==
  \E d \in DocumentsOf("invoice") :
    /\ Arrives(r, "create")
    /\ InsertDocument(r, d, None)
    /\ req' = [req EXCEPT ![r] =
                 [Idle EXCEPT !.pc = "committed", !.op = "create",
                              !.type = "invoice", !.doc = d]]

(* Bound: the instance has an id left for one more note of this kind.      *)
IdLeft(type) ==
  LET unused   == {n \in DocumentsOf(type) : row[n].status = "absent"}
      creating == {q \in InFlight : /\ req[q].op = "create"
                                    /\ req[q].pc = "read"
                                    /\ req[q].type = type}
  IN  Cardinality(creating) < Cardinality(unused)

(* Fault: a note may refer to an invoice in any status.                    *)
BeginCreateNoteUnchecked(r, type) ==
  \E i \in DocumentsOf("invoice") :
    /\ Arrives(r, "create")
    /\ IdLeft(type)
    /\ row[i].status # "absent"
    /\ Load(r, "create", type, i, NoEdit)
    /\ UNCHANGED <<row, lines, events, xmlFile, lock, broker, audit, crashes>>

(* The referenced invoice is read, and its status checked, once.           *)
BeginCreateNote(r, type) ==
  \E i \in DocumentsOf("invoice") :
    /\ Arrives(r, "create")
    /\ IdLeft(type)
    /\ IF row[i].status \in ReferenceInvoiceStatuses
         THEN Load(r, "create", type, i, NoEdit)
         ELSE Finish(r, "refused")
    /\ UNCHANGED <<row, lines, events, xmlFile, lock, broker, audit, crashes>>

CommitCreateNote(r, type) ==
  \E n \in DocumentsOf(type) :
    /\ req[r].pc = "read"
    /\ req[r].op = "create"
    /\ req[r].type = type
    /\ InsertDocument(r, n, req[r].doc)
    /\ Goto(r, "committed")

CreateNote(r, type) == BeginCreateNote(r, type) \/ CommitCreateNote(r, type)

CreateCreditNote(r) == CreateNote(r, "credit_note")
CreateDebitNote(r)  == CreateNote(r, "debit_note")

-----------------------------------------------------------------------------
(* PATCH /invoices/{id}: notes cannot be edited *)

(* Fault: a document may be edited in any status.                          *)
BeginUpdateUnchecked(r, d, edit) ==
  /\ Arrives(r, "update")
  /\ row[d].status # "absent"
  /\ Load(r, "update", "invoice", d, edit)
  /\ UNCHANGED <<row, lines, events, xmlFile, lock, broker, audit, crashes>>

BeginUpdate(r, d, edit) ==
  /\ Arrives(r, "update")
  /\ IF row[d].status \in EditableStatuses
       THEN Load(r, "update", "invoice", d, edit)
       ELSE Finish(r, "refused")
  /\ UNCHANGED <<row, lines, events, xmlFile, lock, broker, audit, crashes>>

(* With header fields changed, the query for the existing lines autoflushes *)
(* the UPDATE of the invoice first: its row is locked until the commit.    *)
FlushHeader(r) ==
  LET d == req[r].doc IN
  /\ req[r].pc = "read"
  /\ req[r].op = "update"
  /\ req[r].edit.header
  /\ req[r].edit.lines # "keep"
  /\ RowFree(d, r)
  /\ lock' = [lock EXCEPT ![d] = r]
  /\ Goto(r, "flushed")
  /\ UNCHANGED <<row, lines, events, xmlFile, broker, audit, crashes>>

(* Fault: the old lines are not deleted.                                   *)
ReadNoExistingLines(r) ==
  /\ req[r].op = "update"
  /\ req[r].edit.lines # "keep"
  /\ req[r].pc = IF req[r].edit.header THEN "flushed" ELSE "read"
  /\ Goto(r, "collected")
  /\ UNCHANGED <<row, lines, events, xmlFile, lock, broker, audit, crashes>>

(* The lines that the commit will delete.                                  *)
ReadExistingLines(r) ==
  /\ req[r].op = "update"
  /\ req[r].edit.lines # "keep"
  /\ req[r].pc = IF req[r].edit.header THEN "flushed" ELSE "read"
  /\ req' = [req EXCEPT ![r].pc = "collected",
                        ![r].lines = lines[req[r].doc]]
  /\ UNCHANGED <<row, lines, events, xmlFile, lock, broker, audit, crashes>>

(* resolve_line_from_input raises: a line names a product the tenant does  *)
(* not have (the products are outside this module).                        *)
RefuseLines(r) ==
  /\ req[r].pc = "collected"
  /\ req[r].op = "update"
  /\ req[r].edit.lines = "replace"
  /\ Unlock(req[r].doc, r)
  /\ Finish(r, "refused")
  /\ UNCHANGED <<row, lines, events, xmlFile, broker, audit, crashes>>

(* Only the columns that changed since the row was read are written; of    *)
(* the lines read earlier, those still there are deleted.                  *)
CommitUpdate(r) ==
  LET d == req[r].doc
      e == req[r].edit
      newTotals == IF e.lines = "replace" THEN r
                   ELSE IF e.lines = "clear" THEN None ELSE req[r].totals
      newLines == IF e.lines = "replace" THEN {r} ELSE {}
      setsTotals == newTotals # req[r].totals
  IN
  /\ req[r].op = "update"
  /\ req[r].pc = IF e.lines = "keep" THEN "read" ELSE "collected"
  /\ e.header \/ setsTotals => RowFree(d, r)
  /\ row' = [row EXCEPT ![d].header = IF e.header THEN r ELSE @,
                        ![d].totals = IF setsTotals THEN newTotals ELSE @]
  /\ lines' = [lines EXCEPT ![d] = (@ \ req[r].lines) \cup newLines]
  /\ Unlock(d, r)
  /\ Goto(r, "committed")
  /\ UNCHANGED <<events, xmlFile, broker, audit, crashes>>

UpdateInvoice(r) ==
  \/ \E d \in DocumentsOf("invoice"), edit \in Edit : BeginUpdate(r, d, edit)
  \/ FlushHeader(r)
  \/ ReadExistingLines(r)
  \/ RefuseLines(r)
  \/ CommitUpdate(r)

-----------------------------------------------------------------------------
(* POST /{invoices,credit-notes,debit-notes}/{id}/transition *)

BeginTransition(r, d, action) ==
  /\ Arrives(r, action)
  /\ IF Allowed(row[d].status, action)
       THEN Load(r, action, DocType[d], d, NoEdit)
       ELSE Finish(r, "refused")
  /\ UNCHANGED <<row, lines, events, xmlFile, lock, broker, audit, crashes>>

(* Fault: no check that there are lines.                                   *)
ReadLinesToSignUnchecked(r) ==
  /\ req[r].pc = "read"
  /\ req[r].op = "sign"
  /\ req' = [req EXCEPT ![r].pc = "collected",
                        ![r].lines = lines[req[r].doc]]
  /\ UNCHANGED <<row, lines, events, xmlFile, lock, broker, audit, crashes>>

(* The lines go into the XML with the header and totals read before them.  *)
ReadLinesToSign(r) ==
  /\ req[r].pc = "read"
  /\ req[r].op = "sign"
  /\ IF lines[req[r].doc] = {}
       THEN Finish(r, "refused")
       ELSE req' = [req EXCEPT ![r].pc = "collected",
                               ![r].lines = lines[req[r].doc]]
  /\ UNCHANGED <<row, lines, events, xmlFile, lock, broker, audit, crashes>>

(* What the request built and signed: the CUFE is a hash of it.            *)
Built(r) == [header |-> req[r].header, totals |-> req[r].totals,
             lines |-> req[r].lines]

(* Fault: a file that a request left behind is not replaced.               *)
SaveXmlOnce(r) ==
  /\ req[r].pc = "collected"
  /\ req[r].op = "sign"
  /\ xmlFile' = [xmlFile EXCEPT ![req[r].doc] = IF @ = None THEN Built(r) ELSE @]
  /\ Goto(r, "saved")
  /\ UNCHANGED <<row, lines, events, lock, broker, audit, crashes>>

(* The file's path depends on the document's id only: the file is replaced *)
(* before the transaction that points to it commits.                       *)
SaveXml(r) ==
  /\ req[r].pc = "collected"
  /\ req[r].op = "sign"
  /\ xmlFile' = [xmlFile EXCEPT ![req[r].doc] = Built(r)]
  /\ Goto(r, "saved")
  /\ UNCHANGED <<row, lines, events, lock, broker, audit, crashes>>

(* Fault: the signature is committed before the file is written.           *)
CommitBeforeXml(r) ==
  LET d == req[r].doc IN
  \E to \in DocumentStatus :
    /\ req[r].op \in TransitionAction
    /\ req[r].pc = IF req[r].op = "sign" THEN "collected" ELSE "read"
    /\ Transition(req[r].status, req[r].op, to)
    /\ RowFree(d, r)
    /\ row' = [row EXCEPT ![d].status = to,
                          ![d].signature =
                             IF req[r].op = "sign" THEN Built(r) ELSE @]
    /\ RecordEvent(d, EventTypeForTransition[req[r].op], req[r].status, to)
    /\ Goto(r, "committed")
    /\ UNCHANGED <<lines, xmlFile, lock, broker, audit, crashes>>

(* The status decided from the row read at the beginning overwrites        *)
(* whatever status the row has now.                                        *)
CommitTransition(r) ==
  LET d == req[r].doc IN
  \E to \in DocumentStatus :
    /\ req[r].op \in TransitionAction
    /\ req[r].pc = IF req[r].op = "sign" THEN "saved" ELSE "read"
    /\ Transition(req[r].status, req[r].op, to)
    /\ RowFree(d, r)
    /\ row' = [row EXCEPT ![d].status = to,
                          ![d].signature =
                             IF req[r].op = "sign" THEN Built(r) ELSE @]
    /\ RecordEvent(d, EventTypeForTransition[req[r].op], req[r].status, to)
    /\ Goto(r, "committed")
    /\ UNCHANGED <<lines, xmlFile, lock, broker, audit, crashes>>

TransitionDocument(r, type) ==
  \/ \E d \in DocumentsOf(type), a \in TransitionAction :
       BeginTransition(r, d, a)
  \/ req[r].type = type /\ CommitTransition(r)

SignDocument(r, type) ==
  req[r].type = type /\ (ReadLinesToSign(r) \/ SaveXml(r))

TransitionInvoice(r)    == TransitionDocument(r, "invoice")
TransitionCreditNote(r) == TransitionDocument(r, "credit_note")
TransitionDebitNote(r)  == TransitionDocument(r, "debit_note")

SignInvoice(r)    == SignDocument(r, "invoice")
SignCreditNote(r) == SignDocument(r, "credit_note")
SignDebitNote(r)  == SignDocument(r, "debit_note")

-----------------------------------------------------------------------------
(* POST /{invoices,credit-notes,debit-notes}/{id}/submit-dian *)

BeginQueue(r, d) ==
  /\ Arrives(r, "queue")
  /\ IF /\ row[d].status \in DianSubmittableStatuses
        /\ row[d].signature # None
       THEN Load(r, "queue", DocType[d], d, NoEdit)
       ELSE Finish(r, "refused")
  /\ UNCHANGED <<row, lines, events, xmlFile, lock, broker, audit, crashes>>

(* The task is published before the event that says so is committed.       *)
(* delay raises TypeError when the task's signature has no room for the    *)
(* self that bind=True passes.                                             *)
PublishTask(r) ==
  /\ req[r].pc = "read"
  /\ req[r].op = "queue"
  /\ IF TaskAcceptsDocumentId
       THEN /\ broker' = broker \cup
                 {[id |-> r, doc |-> req[r].doc, retries |-> 0]}
            /\ Goto(r, "published")
       ELSE Finish(r, "failed") /\ UNCHANGED broker
  /\ UNCHANGED <<row, lines, events, xmlFile, lock, audit, crashes>>

CommitQueued(r) ==
  /\ req[r].pc = "published"
  /\ RecordEvent(req[r].doc, "dian_submit_queued",
                 req[r].status, req[r].status)
  /\ Goto(r, "committed")
  /\ UNCHANGED <<row, lines, xmlFile, lock, broker, audit, crashes>>

QueueDianSubmit(r, type) ==
  \/ \E d \in DocumentsOf(type) : BeginQueue(r, d)
  \/ req[r].type = type /\ (PublishTask(r) \/ CommitQueued(r))

QueueInvoiceDianSubmit(r)    == QueueDianSubmit(r, "invoice")
QueueCreditNoteDianSubmit(r) == QueueDianSubmit(r, "credit_note")
QueueDebitNoteDianSubmit(r)  == QueueDianSubmit(r, "debit_note")

-----------------------------------------------------------------------------
Serve(r) ==
  \/ CreateInvoice(r) \/ CreateCreditNote(r) \/ CreateDebitNote(r)
  \/ UpdateInvoice(r)
  \/ TransitionInvoice(r) \/ TransitionCreditNote(r) \/ TransitionDebitNote(r)
  \/ SignInvoice(r) \/ SignCreditNote(r) \/ SignDebitNote(r)
  \/ QueueInvoiceDianSubmit(r)
  \/ QueueCreditNoteDianSubmit(r)
  \/ QueueDebitNoteDianSubmit(r)
  \/ WriteAudit(r)

Next == \E r \in Requests : Serve(r) \/ Crash(r)

Spec == Init /\ [][Next]_vars

(* A request that has arrived is served by a thread that keeps running;    *)
(* nothing obliges a client to send one, or a thread to crash.             *)
Fairness == \A r \in Requests : WF_vars(req[r].pc # "idle" /\ Serve(r))

FairSpec == Spec /\ Fairness

-----------------------------------------------------------------------------
TypeOK ==
  /\ row \in [Documents -> Row]
  /\ lines \in [Documents -> SUBSET Requests]
  /\ events \in [Documents -> Seq(Event)]
  /\ xmlFile \in [Documents -> Content \cup {None}]
  /\ lock \in [Documents -> Writer]
  /\ broker \subseteq Message
  /\ audit \subseteq Requests
  /\ req \in [Requests -> Request]
  /\ crashes \in Nat

-----------------------------------------------------------------------------
(* Properties *)

IssuedStatuses == {"signed", "submitted", "accepted", "rejected"}

(* A document that has been signed, and was not cancelled since, has its   *)
(* CUFE and an XML file to submit, however the requests interleave and     *)
(* wherever one dies: document_workflow_service writes the file first, and *)
(* nothing takes xml_path away.                                            *)
SignedDocumentsHaveXml ==
  \A d \in Documents :
    row[d].status \in IssuedStatuses =>
      row[d].signature # None /\ xmlFile[d] # None

(* No XML is ever signed without lines (no_lines in the signing helpers),        *)
(* although PATCH accepts an empty list of lines.                          *)
SignedXmlHasLines ==
  \A d \in Documents :
    /\ row[d].signature # None => row[d].signature.lines # {}
    /\ xmlFile[d] # None => xmlFile[d].lines # {}

(* dian_submit_queued is the one event that does not change the status.    *)
ChangesStatus(e) == e.type # "dian_submit_queued"

(* The timeline a user sees ends where the row is: the status in the row   *)
(* is the one that the last event which changes it announced, even when    *)
(* requests overwrite each other's status.                                 *)
StatusIsLastEvent ==
  \A d \in Documents :
    /\ row[d].status = "absent" <=> events[d] = <<>>
    /\ \A i \in 1 .. Len(events[d]) :
         /\ ChangesStatus(events[d][i])
         /\ \A j \in i + 1 .. Len(events[d]) : ~ChangesStatus(events[d][j])
         => row[d].status = events[d][i].to

(* Every event starts from a status that an earlier event of the document  *)
(* brought about: nothing is submitted that was never signed, nothing is   *)
(* accepted that was never submitted, and the first event is the creation. *)
EventsAreConnected ==
  \A d \in Documents : \A i \in 1 .. Len(events[d]) :
    IF i = 1
      THEN events[d][1].type = "created"
      ELSE \E j \in 1 .. i - 1 : events[d][j].to = events[d][i].from

WasSigned(d) ==
  \E i \in 1 .. Len(events[d]) : events[d][i].type = "signed"

(* A note only ever refers to an invoice that was signed at some time (the *)
(* check of reference statuses in credit_note_service and                  *)
(* debit_note_service).                                                    *)
NotesReferToSignedInvoices ==
  \A n \in Documents :
    row[n].reference # None => WasSigned(row[n].reference)

(* The audit log has the request, is about to, or never will: AuditService *)
(* writes in a second transaction, before which the process may die.       *)
Accounted(r) == r \in audit \/ req[r].pc \in {"committed", "crashed"}

Wrote(r) ==
  \E d \in Documents : r \in {row[d].header, row[d].totals} \cup lines[d]

WritersAreAudited == \A r \in Requests : Wrote(r) => Accounted(r)

(* The entries that users see in the timelines of all documents            *)
TimelineEntries == UNION {{d} \X DOMAIN events[d] : d \in Documents}

(* Nothing that users see of a document came about behind the audit log's  *)
(* back: not its header, totals or lines, and not an event of its timeline *)
(* (creations, transitions and queueings have one event each).             *)
ChangesAreAudited ==
  /\ WritersAreAudited
  /\ Cardinality(TimelineEntries)
       <= Cardinality({r \in Requests : Accounted(r)})

-----------------------------------------------------------------------------
(* The inductive invariant: what a request that is still working knows     *)
(* about its document.                                                     *)

(* Before its commit a request keeps the status it read and decided on.    *)
Deciding == Working \ {"committed"}

RequestsHaveDocuments ==
  \A r \in Requests :
    req[r].pc \in Working =>
      req[r].doc \in Documents /\ req[r].op \in Operations

(* A status that was read is one that some event brought about.            *)
Reached(d, s) == \E i \in 1 .. Len(events[d]) : events[d][i].to = s

StatusesWereReached ==
  /\ \A d \in Documents :
       row[d].status # "absent" => Reached(d, row[d].status)
  /\ \A r \in Requests :
       req[r].pc \in Deciding => Reached(req[r].doc, req[r].status)

(* A document found issued, now or when a request read it, was signed.     *)
IssuedWereSigned ==
  /\ \A d \in Documents :
       row[d].status \in IssuedStatuses =>
         row[d].signature # None /\ WasSigned(d)
  /\ \A r \in Requests :
       req[r].pc \in Deciding /\ req[r].status \in IssuedStatuses =>
         row[req[r].doc].signature # None /\ WasSigned(req[r].doc)

(* A note that is being created refers to an issued invoice.               *)
CreatedNotesRefer ==
  \A r \in Requests :
    req[r].pc \in Deciding /\ req[r].op = "create" =>
      req[r].status \in ReferenceInvoiceStatuses

(* A signature has lines, and the file is there before the row says so.    *)
SigningHasXml ==
  /\ \A r \in Requests :
       req[r].op = "sign" =>
         /\ req[r].pc \in {"collected", "saved"} => req[r].lines # {}
         /\ req[r].pc = "saved" => xmlFile[req[r].doc] # None
  /\ \A d \in Documents : row[d].signature # None => xmlFile[d] # None

WorkflowInv ==
  /\ TypeOK
  /\ RequestsHaveDocuments
  /\ StatusIsLastEvent
  /\ StatusesWereReached
  /\ EventsAreConnected
  /\ IssuedWereSigned
  /\ CreatedNotesRefer
  /\ NotesReferToSignedInvoices
  /\ SigningHasXml
  /\ SignedXmlHasLines

-----------------------------------------------------------------------------
(* Nobody waits for ever: every request that arrives is answered, although *)
(* an update with header fields keeps the row locked between its flush and *)
(* its commit.                                                             *)
RequestsComplete ==
  \A r \in Requests : req[r].pc \in Working ~> req[r].pc \in Finished

(* With one request at a time the stored lines are those the totals were   *)
(* computed from: PATCH replaces all the lines and recomputes the totals.  *)
LinesMatchTotals ==
  \A d \in Documents :
    lines[d] = IF row[d].totals = None THEN {} ELSE {row[d].totals}

(* With one request at a time the XML file of a signed document is the one *)
(* its CUFE was computed from, also when an earlier request died between   *)
(* writing the file and committing, and the draft was edited since.        *)
CufeMatchesXml ==
  \A d \in Documents :
    row[d].signature # None => xmlFile[d] = row[d].signature

(* The row, its lines and its XML file, seen as one atomic object.         *)
ContentOf(d) == [header |-> row[d].header, totals |-> row[d].totals,
                 lines |-> lines[d]]

Lifecycle == INSTANCE DocumentLifecycle WITH
  Contents <- Content,
  status   <- [d \in Documents |-> row[d].status],
  content  <- [d \in Documents |-> ContentOf(d)],
  issued   <- [d \in Documents |->
                 IF row[d].signature = None THEN None ELSE xmlFile[d]]

(* The handlers implement the atomic lifecycle, deaths included, when      *)
(* requests do not overlap.                                                *)
ImplementsLifecycle == Lifecycle!Spec

(* The claim "Editar solo en draft": what a document says changes only in  *)
(* a step that finds it a draft.                                           *)
EditedOnlyInDraft ==
  [][\A d \in Documents :
       row[d].status # "absent" /\ ContentOf(d)' # ContentOf(d) =>
         row[d].status \in EditableStatuses]_vars

(* The claim that a signed document can be queued for the DIAN: a request  *)
(* that passed the checks of queue_*_dian_submit does not end in an error. *)
SignedDocumentsCanBeQueued ==
  \A r \in Requests : req[r].pc # "failed"
=============================================================================
