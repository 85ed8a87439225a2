----------------------- MODULE DocumentWorkflowProofs -----------------------
(***************************************************************************)
(* Theorems about DocumentWorkflow, for any number of requests, documents, *)
(* overlapping requests and deaths: WorkflowInv is an inductive invariant, *)
(* and with it the safety properties that it is made of.  When requests do *)
(* not overlap, SerialInv is one, and the handlers implement the atomic    *)
(* DocumentLifecycle.                                                      *)
(***************************************************************************)
EXTENDS DocumentWorkflow, FiniteSetTheorems, TLAPS

-----------------------------------------------------------------------------
(* The steps of a request, without the grouping into endpoints *)

Step(r) ==
  \/ CreateInvoice(r)
  \/ \E type \in {"credit_note", "debit_note"} :
       BeginCreateNote(r, type) \/ CommitCreateNote(r, type)
  \/ \E d \in Documents, edit \in Edit :
       DocType[d] = "invoice" /\ BeginUpdate(r, d, edit)
  \/ FlushHeader(r)
  \/ ReadExistingLines(r)
  \/ RefuseLines(r)
  \/ CommitUpdate(r)
  \/ \E d \in Documents, a \in TransitionAction : BeginTransition(r, d, a)
  \/ ReadLinesToSign(r)
  \/ SaveXml(r)
  \/ CommitTransition(r)
  \/ \E d \in Documents : BeginQueue(r, d)
  \/ PublishTask(r)
  \/ CommitQueued(r)
  \/ WriteAudit(r)
  \/ Crash(r)

(* Every step of the system is one of these.                               *)
LEMMA NextIsStep == ASSUME Next PROVE \E r \in Requests : Step(r)
<1>1. PICK r \in Requests : Serve(r) \/ Crash(r)
  BY DEF Next
<1>2. CASE CreateInvoice(r) \/ Crash(r) \/ WriteAudit(r)
  BY <1>2 DEF Step
<1>3. CASE CreateCreditNote(r) \/ CreateDebitNote(r)
  BY <1>3 DEF Step, CreateCreditNote, CreateDebitNote, CreateNote
<1>4. CASE UpdateInvoice(r)
  BY <1>4 DEF Step, UpdateInvoice, DocumentsOf
<1>5. CASE TransitionInvoice(r) \/ TransitionCreditNote(r) \/ TransitionDebitNote(r)
  BY <1>5 DEF Step, TransitionInvoice, TransitionCreditNote,
              TransitionDebitNote, TransitionDocument, DocumentsOf
<1>6. CASE SignInvoice(r) \/ SignCreditNote(r) \/ SignDebitNote(r)
  BY <1>6 DEF Step, SignInvoice, SignCreditNote, SignDebitNote, SignDocument
<1>7. CASE \/ QueueInvoiceDianSubmit(r)
           \/ QueueCreditNoteDianSubmit(r)
           \/ QueueDebitNoteDianSubmit(r)
  BY <1>7 DEF Step, QueueInvoiceDianSubmit, QueueCreditNoteDianSubmit,
              QueueDebitNoteDianSubmit, QueueDianSubmit, DocumentsOf
<1> QED
  BY <1>1, <1>2, <1>3, <1>4, <1>5, <1>6, <1>7 DEF Serve

-----------------------------------------------------------------------------
(* Types *)

(* A request's record after each of the ways to change it.                 *)
LEMMA LoadType ==
  ASSUME WorkflowAssumption, TypeOK,
         NEW r \in Requests, NEW op \in Operations, NEW type \in DocumentType,
         NEW d \in Documents, NEW edit \in Edit, Load(r, op, type, d, edit)
  PROVE  /\ req' \in [Requests -> Request]
         /\ req'[r].pc = "read"
         /\ req'[r].doc = d
         /\ req'[r].op = op
         /\ req'[r].status = row[d].status
         /\ \A q \in Requests : q # r => req'[q] = req[q]
<1>1. row[d] \in Row
  BY DEF TypeOK
<1>2. row[d].status \in Status /\ row[d].header \in Writer /\ row[d].totals \in Writer
  BY <1>1 DEF Row
<1> QED
  BY <1>2 DEF TypeOK, Load, Request, Working

(* A request that is answered has nothing left.                            *)
LEMMA FinishType ==
  ASSUME TypeOK, NEW r \in Requests, NEW outcome \in Finished,
         Finish(r, outcome)
  PROVE  /\ req' \in [Requests -> Request]
         /\ req'[r].pc \in Finished
         /\ req'[r].op = None
         /\ \A q \in Requests : q # r => req'[q] = req[q]
  BY DEF TypeOK, Finish, Request, Idle, NoEdit, Edit, Status, Writer

(* A request that goes on keeps what it has read.                          *)
LEMMA GotoType ==
  ASSUME TypeOK, NEW r \in Requests, NEW pc \in Working, Goto(r, pc)
  PROVE  /\ req' \in [Requests -> Request]
         /\ req'[r] = [req[r] EXCEPT !.pc = pc]
         /\ \A q \in Requests : q # r => req'[q] = req[q]
<1>1. req[r] \in Request
  BY DEF TypeOK
<1>2. [req[r] EXCEPT !.pc = pc] \in Request
  BY <1>1 DEF Request
<1>3. req' = [req EXCEPT ![r] = [req[r] EXCEPT !.pc = pc]]
  BY DEF Goto
<1> QED
  BY <1>2, <1>3 DEF TypeOK

(* A request that reads the lines keeps the rest.                          *)
LEMMA CollectType ==
  ASSUME TypeOK, NEW r \in Requests, NEW content \in SUBSET Requests,
         req' = [req EXCEPT ![r].pc = "collected", ![r].lines = content]
  PROVE  /\ req' \in [Requests -> Request]
         /\ req'[r] = [req[r] EXCEPT !.pc = "collected", !.lines = content]
         /\ \A q \in Requests : q # r => req'[q] = req[q]
<1> DEFINE moved == [req EXCEPT ![r].pc = "collected"]
<1>1. moved \in [Requests -> Request]
  <2>1. [req[r] EXCEPT !.pc = "collected"] \in Request
    BY req[r] \in Request DEF TypeOK, Request, Working
  <2> QED
    BY <2>1 DEF TypeOK
<1>2. req' = [moved EXCEPT ![r].lines = content]
  OBVIOUS
<1>3. moved[r] = [req[r] EXCEPT !.pc = "collected"]
  BY DEF TypeOK
<1>4. \A q \in Requests : q # r => moved[q] = req[q]
  BY DEF TypeOK
<1> HIDE DEF moved
<1>5. req' \in [Requests -> Request]
  <2>1. [moved[r] EXCEPT !.lines = content] \in Request
    BY <1>1, moved[r] \in Request DEF Request
  <2> QED
    BY <1>1, <1>2, <2>1
<1>6. req'[r] = [moved[r] EXCEPT !.lines = content]
  BY <1>1, <1>2
<1> QED
  BY <1>1, <1>2, <1>3, <1>4, <1>5, <1>6

(* A row is unlocked.                                                      *)
LEMMA UnlockType ==
  ASSUME TypeOK, NEW r \in Requests, NEW d, Unlock(d, r)
  PROVE  lock' \in [Documents -> Writer]
  BY DEF TypeOK, Unlock, Writer
(* The events of a document after one more has been appended.              *)
LEMMA RecordEventType ==
  ASSUME TypeOK, NEW d \in Documents, NEW type \in DocumentEventType,
         NEW from \in Status, NEW to \in Status,
         RecordEvent(d, type, from, to)
  PROVE  /\ events' \in [Documents -> Seq(Event)]
         /\ Len(events'[d]) = Len(events[d]) + 1
         /\ Len(events[d]) \in Nat
         /\ \A i \in 1 .. Len(events[d]) : events'[d][i] = events[d][i]
         /\ events'[d][Len(events[d]) + 1] =
              [type |-> type, from |-> from, to |-> to]
         /\ \A c \in Documents : c # d => events'[c] = events[c]
<1> DEFINE e == [type |-> type, from |-> from, to |-> to]
<1>1. e \in Event
  BY DEF Event
<1>2. events[d] \in Seq(Event)
  BY DEF TypeOK
<1>3. Append(events[d], e) \in Seq(Event)
  BY <1>1, <1>2
<1>4. /\ Len(Append(events[d], e)) = Len(events[d]) + 1
      /\ \A i \in 1 .. Len(events[d]) : Append(events[d], e)[i] = events[d][i]
      /\ Append(events[d], e)[Len(events[d]) + 1] = e
      /\ Len(events[d]) \in Nat
  BY <1>1, <1>2
<1>5. events' = [events EXCEPT ![d] = Append(events[d], e)]
  BY DEF RecordEvent
<1>6. events'[d] = Append(events[d], e)
  BY <1>5 DEF TypeOK
<1>7. events' \in [Documents -> Seq(Event)]
  BY <1>3, <1>5 DEF TypeOK
<1>8. \A c \in Documents : c # d => events'[c] = events[c]
  BY <1>5 DEF TypeOK
<1> QED
  BY <1>4, <1>6, <1>7, <1>8

-----------------------------------------------------------------------------
(* What the three kinds of commit do to the rows *)

(* A creation inserts one draft.                                           *)
LEMMA InsertEffect ==
  ASSUME TypeOK, NEW r \in Requests, NEW d \in Documents,
         NEW reference \in Documents \cup {None},
         InsertDocument(r, d, reference)
  PROVE  /\ row' \in [Documents -> Row]
         /\ lines' \in [Documents -> SUBSET Requests]
         /\ row[d].status = "absent"
         /\ row'[d].status = "draft"
         /\ row'[d].signature = None
         /\ row'[d].reference = reference
         /\ \A c \in Documents : c # d => row'[c] = row[c]
<1> DEFINE new == [NoRow EXCEPT !.status = "draft", !.header = r,
                               !.totals = r, !.reference = reference]
<1>1. new \in Row
  BY DEF NoRow, Row, Status, DocumentStatus, Writer
<1>2. row' = [row EXCEPT ![d] = new]
  BY DEF InsertDocument
<1>3. lines' = [lines EXCEPT ![d] = {r}]
  BY DEF InsertDocument
<1>4. lines' \in [Documents -> SUBSET Requests]
  BY <1>3 DEF TypeOK
<1> HIDE DEF new
<1>5. /\ row' \in [Documents -> Row]
      /\ row'[d] = new
      /\ \A c \in Documents : c # d => row'[c] = row[c]
  BY <1>1, <1>2 DEF TypeOK
<1>6. new.status = "draft" /\ new.signature = None /\ new.reference = reference
  BY DEF new, NoRow
<1> QED
  BY <1>4, <1>5, <1>6 DEF InsertDocument

(* An update writes the header and the totals only.                        *)
LEMMA UpdateEffect ==
  ASSUME TypeOK, RequestsHaveDocuments, NEW r \in Requests, CommitUpdate(r)
  PROVE  /\ row' \in [Documents -> Row]
         /\ lines' \in [Documents -> SUBSET Requests]
         /\ \A c \in Documents :
              /\ row'[c].status = row[c].status
              /\ row'[c].signature = row[c].signature
              /\ row'[c].reference = row[c].reference
<1> DEFINE d == req[r].doc
<1>1. d \in Documents /\ req[r] \in Request
  BY DEF RequestsHaveDocuments, CommitUpdate, Working, TypeOK
<1>2. PICK h \in Writer, t \in Writer :
        row' = [row EXCEPT ![d].header = h, ![d].totals = t]
  <2>1. row[d] \in Row
    BY <1>1 DEF TypeOK
  <2>2. row[d].header \in Writer /\ row[d].totals \in Writer
    BY <2>1 DEF Row
  <2>3. r \in Writer /\ None \in Writer /\ req[r].totals \in Writer
    BY <1>1 DEF Writer, Request
  <2> QED
    BY <2>2, <2>3 DEF CommitUpdate
<1>3. PICK old \in SUBSET Requests, new \in SUBSET Requests :
        lines' = [lines EXCEPT ![d] = (@ \ old) \cup new]
  BY <1>1 DEF CommitUpdate, Request
<1>4. lines' \in [Documents -> SUBSET Requests]
  BY <1>1, <1>3 DEF TypeOK
<1> HIDE DEF d
<1> DEFINE headed == [row EXCEPT ![d].header = h]
<1>5. /\ headed \in [Documents -> Row]
      /\ \A c \in Documents :
           /\ headed[c].status = row[c].status
           /\ headed[c].signature = row[c].signature
           /\ headed[c].reference = row[c].reference
  <2>1. row[d] \in Row
    BY <1>1 DEF TypeOK
  <2>2. [row[d] EXCEPT !.header = h] \in Row
    BY <2>1 DEF Row
  <2>3. headed = [row EXCEPT ![d] = [row[d] EXCEPT !.header = h]]
    OBVIOUS
  <2>4. headed \in [Documents -> Row]
    BY <2>2, <2>3, <1>1 DEF TypeOK
  <2>5. headed[d] = [row[d] EXCEPT !.header = h]
    BY <1>1 DEF TypeOK
  <2>6. \A c \in Documents : c # d => headed[c] = row[c]
    BY DEF TypeOK
  <2> QED
    BY <2>1, <2>4, <2>5, <2>6 DEF Row
<1>6. row' = [headed EXCEPT ![d].totals = t]
  BY <1>2
<1> HIDE DEF headed
<1>7. /\ row' \in [Documents -> Row]
      /\ \A c \in Documents :
           /\ row'[c].status = headed[c].status
           /\ row'[c].signature = headed[c].signature
           /\ row'[c].reference = headed[c].reference
  <2>1. headed[d] \in Row
    BY <1>1, <1>5
  <2>2. [headed[d] EXCEPT !.totals = t] \in Row
    BY <2>1 DEF Row
  <2>3. row' \in [Documents -> Row]
    BY <1>1, <1>5, <1>6, <2>2
  <2>4. row'[d] = [headed[d] EXCEPT !.totals = t]
    BY <1>1, <1>5, <1>6
  <2>5. \A c \in Documents : c # d => row'[c] = headed[c]
    BY <1>5, <1>6
  <2> QED
    BY <2>1, <2>3, <2>4, <2>5 DEF Row
<1> QED
  BY <1>4, <1>5, <1>7

(* What a request built is some content, never the SQL NULL.               *)
LEMMA BuiltType ==
  ASSUME WorkflowAssumption, TypeOK, NEW r \in Requests
  PROVE  Built(r) \in Content /\ Built(r) # None /\ Built(r).lines = req[r].lines
<1>1. req[r] \in Request
  BY DEF TypeOK
<1>2. Built(r) \in Content /\ Built(r).lines = req[r].lines
  BY <1>1 DEF Built, Content, Request
<1> QED
  BY <1>2 DEF WorkflowAssumption

(* A transition writes the status, and the signature when it signs.        *)
LEMMA TransitionEffect ==
  ASSUME WorkflowAssumption, TypeOK, RequestsHaveDocuments,
         NEW r \in Requests, CommitTransition(r)
  PROVE  LET d == req[r].doc IN
         \E to \in DocumentStatus :
           /\ req[r].op \in TransitionAction
           /\ Transition(req[r].status, req[r].op, to)
           /\ RecordEvent(d, EventTypeForTransition[req[r].op],
                          req[r].status, to)
           /\ row' \in [Documents -> Row]
           /\ row'[d].status = to
           /\ row'[d].signature = IF req[r].op = "sign" THEN Built(r)
                                  ELSE row[d].signature
           /\ row'[d].reference = row[d].reference
           /\ \A c \in Documents : c # d => row'[c] = row[c]
<1> DEFINE d == req[r].doc
<1>1. d \in Documents /\ req[r].op \in TransitionAction
  BY DEF RequestsHaveDocuments, CommitTransition, Working
<1>2. PICK to \in DocumentStatus :
        /\ Transition(req[r].status, req[r].op, to)
        /\ row' = [row EXCEPT ![d].status = to,
                              ![d].signature =
                                 IF req[r].op = "sign" THEN Built(r) ELSE @]
        /\ RecordEvent(d, EventTypeForTransition[req[r].op],
                       req[r].status, to)
  BY DEF CommitTransition
<1> DEFINE moved == [row EXCEPT ![d].status = to]
           sig   == IF req[r].op = "sign" THEN Built(r) ELSE row[d].signature
<1>3. row[d] \in Row /\ sig \in Content \cup {None}
  <2>1. row[d] \in Row
    BY <1>1 DEF TypeOK
  <2> QED
    BY <2>1, BuiltType DEF Row
<1>4. /\ moved \in [Documents -> Row]
      /\ moved[d].status = to
      /\ moved[d].signature = row[d].signature
      /\ moved[d].reference = row[d].reference
      /\ \A c \in Documents : c # d => moved[c] = row[c]
  <2>1. [row[d] EXCEPT !.status = to] \in Row
    BY <1>3 DEF Row, Status
  <2>2. moved = [row EXCEPT ![d] = [row[d] EXCEPT !.status = to]]
    OBVIOUS
  <2>3. moved[d] = [row[d] EXCEPT !.status = to]
    BY <1>1 DEF TypeOK
  <2>4. moved \in [Documents -> Row]
    BY <2>1, <2>2, <1>1 DEF TypeOK
  <2> QED
    BY <1>3, <2>3, <2>4, <1>1 DEF Row, TypeOK
<1>5. row' = [moved EXCEPT ![d].signature = sig]
  BY <1>1, <1>2, <1>4 DEF TypeOK
<1> HIDE DEF d, moved, sig
<1>6. /\ row' \in [Documents -> Row]
      /\ row'[d].status = moved[d].status
      /\ row'[d].signature = sig
      /\ row'[d].reference = moved[d].reference
      /\ \A c \in Documents : c # d => row'[c] = moved[c]
  <2>1. moved[d] \in Row
    BY <1>1, <1>4
  <2>2. [moved[d] EXCEPT !.signature = sig] \in Row
    BY <1>3, <2>1 DEF Row
  <2>3. row' \in [Documents -> Row]
    BY <1>1, <1>4, <1>5, <2>2
  <2>4. row'[d] = [moved[d] EXCEPT !.signature = sig]
    BY <1>1, <1>4, <1>5
  <2> QED
    BY <2>1, <2>3, <2>4, <1>4, <1>5 DEF Row
<1> QED
  BY <1>1, <1>2, <1>4, <1>6 DEF d, sig

-----------------------------------------------------------------------------
(* Every step keeps the variables in their types.                          *)
LEMMA TypeStep ==
  ASSUME WorkflowAssumption, TypeOK, RequestsHaveDocuments,
         NEW r \in Requests, Step(r)
  PROVE  TypeOK'
<1> DEFINE Quiet == UNCHANGED <<row, lines, events, xmlFile, lock, broker,
                                audit, crashes>>
<1>0. ASSUME Quiet, req' \in [Requests -> Request]
      PROVE  TypeOK'
  BY <1>0 DEF TypeOK
<1>1. CASE CreateInvoice(r)
  <2>1. PICK d \in Documents :
          /\ InsertDocument(r, d, None)
          /\ req' = [req EXCEPT ![r] =
                       [Idle EXCEPT !.pc = "committed", !.op = "create",
                                    !.type = "invoice", !.doc = d]]
    BY <1>1 DEF CreateInvoice, DocumentsOf
  <2>2. [Idle EXCEPT !.pc = "committed", !.op = "create",
                     !.type = "invoice", !.doc = d] \in Request
    BY DEF Idle, Request, Working, Operations, DocumentType, NoEdit, Edit,
           Status, Writer
  <2>3. req' \in [Requests -> Request]
    BY <2>1, <2>2 DEF TypeOK
  <2>4. RecordEvent(d, "created", "absent", "draft")
    BY <2>1 DEF InsertDocument
  <2>5. events' \in [Documents -> Seq(Event)]
    BY <2>4, RecordEventType DEF DocumentEventType, Status, DocumentStatus
  <2> QED
    BY <2>1, <2>3, <2>5, InsertEffect DEF InsertDocument, TypeOK
<1>2. ASSUME NEW type \in {"credit_note", "debit_note"},
             BeginCreateNote(r, type) \/ CommitCreateNote(r, type)
      PROVE  TypeOK'
  <2>1. CASE BeginCreateNote(r, type)
    <3>1. PICK i \in Documents :
            \/ Load(r, "create", type, i, NoEdit)
            \/ Finish(r, "refused")
      BY <2>1 DEF BeginCreateNote, DocumentsOf
    <3>2. req' \in [Requests -> Request]
      <4>1. "create" \in Operations /\ type \in DocumentType /\ NoEdit \in Edit
        BY <1>2 DEF Operations, DocumentType, NoEdit, Edit
      <4>2. "refused" \in Finished
        BY DEF Finished
      <4> QED
        BY <3>1, <4>1, <4>2, LoadType, FinishType
    <3> QED
      BY <2>1, <3>2, <1>0 DEF BeginCreateNote
  <2>2. CASE CommitCreateNote(r, type)
    <3>1. PICK n \in Documents : InsertDocument(r, n, req[r].doc)
      BY <2>2 DEF CommitCreateNote, DocumentsOf
    <3>2. req[r].doc \in Documents \cup {None}
      BY req[r] \in Request DEF TypeOK, Request
    <3>3. req' \in [Requests -> Request]
      BY <2>2, GotoType DEF CommitCreateNote, Working
    <3>4. RecordEvent(n, "created", "absent", "draft")
      BY <3>1 DEF InsertDocument
    <3>5. events' \in [Documents -> Seq(Event)]
      BY <3>4, RecordEventType DEF DocumentEventType, Status, DocumentStatus
    <3> QED
      BY <3>1, <3>2, <3>3, <3>5, InsertEffect DEF InsertDocument, TypeOK
  <2> QED
    BY <1>2, <2>1, <2>2
<1>3. ASSUME NEW d \in Documents, NEW edit \in Edit, BeginUpdate(r, d, edit)
      PROVE  TypeOK'
  <2>1. req' \in [Requests -> Request]
    BY <1>3, LoadType, FinishType
    DEF BeginUpdate, Operations, DocumentType, Finished
  <2> QED
    BY <1>3, <2>1, <1>0 DEF BeginUpdate
<1>4. CASE FlushHeader(r)
  <2>1. req' \in [Requests -> Request]
    BY <1>4, GotoType DEF FlushHeader, Working
  <2>2. lock' \in [Documents -> Writer]
    BY <1>4 DEF FlushHeader, TypeOK, Writer
  <2> QED
    BY <1>4, <2>1, <2>2 DEF FlushHeader, TypeOK
<1>5. CASE ReadExistingLines(r)
  <2>1. lines[req[r].doc] \in SUBSET Requests
    BY <1>5 DEF ReadExistingLines, RequestsHaveDocuments, Working, TypeOK
  <2>2. req' \in [Requests -> Request]
    BY <1>5, <2>1, CollectType DEF ReadExistingLines
  <2> QED
    BY <1>5, <2>2, <1>0 DEF ReadExistingLines
<1>6. CASE RefuseLines(r)
  <2>1. req' \in [Requests -> Request]
    BY <1>6, FinishType DEF RefuseLines, Finished
  <2>2. lock' \in [Documents -> Writer]
    BY <1>6, UnlockType DEF RefuseLines
  <2> QED
    BY <1>6, <2>1, <2>2 DEF RefuseLines, TypeOK
<1>7. CASE CommitUpdate(r)
  <2>1. req' \in [Requests -> Request]
    BY <1>7, GotoType DEF CommitUpdate, Working
  <2>2. lock' \in [Documents -> Writer]
    BY <1>7, UnlockType DEF CommitUpdate
  <2> QED
    BY <1>7, <2>1, <2>2, UpdateEffect DEF CommitUpdate, TypeOK
<1>8. ASSUME NEW d \in Documents, NEW a \in TransitionAction,
             BeginTransition(r, d, a)
      PROVE  TypeOK'
  <2>1. a \in Operations /\ DocType[d] \in DocumentType /\ NoEdit \in Edit
    BY DEF Operations, WorkflowAssumption, NoEdit, Edit
  <2>2. req' \in [Requests -> Request]
    BY <1>8, <2>1, LoadType, FinishType DEF BeginTransition, Finished
  <2> QED
    BY <1>8, <2>2, <1>0 DEF BeginTransition
<1>9. CASE ReadLinesToSign(r)
  <2>1. lines[req[r].doc] \in SUBSET Requests
    BY <1>9 DEF ReadLinesToSign, RequestsHaveDocuments, Working, TypeOK
  <2>2. req' \in [Requests -> Request]
    BY <1>9, <2>1, CollectType, FinishType DEF ReadLinesToSign, Finished
  <2> QED
    BY <1>9, <2>2, <1>0 DEF ReadLinesToSign
<1>10. CASE SaveXml(r)
  <2>1. req' \in [Requests -> Request]
    BY <1>10, GotoType DEF SaveXml, Working
  <2>2. xmlFile' \in [Documents -> Content \cup {None}]
    BY <1>10, BuiltType DEF SaveXml, TypeOK
  <2> QED
    BY <1>10, <2>1, <2>2 DEF SaveXml, TypeOK
<1>11. CASE CommitTransition(r)
  <2>1. req' \in [Requests -> Request]
    BY <1>11, GotoType DEF CommitTransition, Working
  <2>2. req[r].doc \in Documents /\ req[r].status \in Status
    BY <1>11, req[r] \in Request
    DEF CommitTransition, RequestsHaveDocuments, Working, TypeOK, Request
  <2>3. PICK to \in DocumentStatus :
          /\ req[r].op \in TransitionAction
          /\ RecordEvent(req[r].doc, EventTypeForTransition[req[r].op],
                         req[r].status, to)
          /\ row' \in [Documents -> Row]
    BY <1>11, TransitionEffect
  <2>4. EventTypeForTransition[req[r].op] \in DocumentEventType
    BY <2>3 DEF EventTypeForTransition, TransitionAction, DocumentEventType
  <2>5. events' \in [Documents -> Seq(Event)]
    BY <2>2, <2>3, <2>4, to \in Status, RecordEventType DEF Status
  <2> QED
    BY <1>11, <2>1, <2>3, <2>5 DEF CommitTransition, TypeOK
<1>12. ASSUME NEW d \in Documents, BeginQueue(r, d)
       PROVE  TypeOK'
  <2>1. /\ "queue" \in Operations
        /\ DocType[d] \in DocumentType
        /\ NoEdit \in Edit
    BY DEF Operations, WorkflowAssumption, NoEdit, Edit
  <2>2. req' \in [Requests -> Request]
    BY <1>12, <2>1, LoadType, FinishType DEF BeginQueue, Finished
  <2> QED
    BY <1>12, <2>2, <1>0 DEF BeginQueue
<1>13. CASE PublishTask(r)
  <2>1. req' \in [Requests -> Request]
    BY <1>13, GotoType, FinishType DEF PublishTask, Working, Finished
  <2>2. req[r].doc \in Documents
    BY <1>13 DEF PublishTask, RequestsHaveDocuments, Working
  <2>3. broker' \subseteq Message
    BY <1>13, <2>2 DEF PublishTask, TypeOK, Message
  <2> QED
    BY <1>13, <2>1, <2>3 DEF PublishTask, TypeOK
<1>14. CASE CommitQueued(r)
  <2>1. req' \in [Requests -> Request]
    BY <1>14, GotoType DEF CommitQueued, Working
  <2>2. req[r].doc \in Documents /\ req[r].status \in Status
    BY <1>14, req[r] \in Request
    DEF CommitQueued, RequestsHaveDocuments, Working, TypeOK, Request
  <2>3. events' \in [Documents -> Seq(Event)]
    BY <1>14, <2>2, RecordEventType DEF CommitQueued, DocumentEventType
  <2> QED
    BY <1>14, <2>1, <2>3 DEF CommitQueued, TypeOK
<1>15. CASE WriteAudit(r)
  <2>1. req' \in [Requests -> Request]
    BY <1>15, FinishType DEF WriteAudit, Finished
  <2> QED
    BY <1>15, <2>1 DEF WriteAudit, TypeOK
<1>16. CASE Crash(r)
  <2>1. req' \in [Requests -> Request]
    BY <1>16, FinishType DEF Crash, Finished
  <2>2. lock' \in [Documents -> Writer]
    BY <1>16, UnlockType DEF Crash
  <2> QED
    BY <1>16, <2>1, <2>2 DEF Crash, TypeOK
<1> QED
  BY <1>1, <1>2, <1>3, <1>4, <1>5, <1>6, <1>7, <1>8, <1>9, <1>10, <1>11,
     <1>12, <1>13, <1>14, <1>15, <1>16 DEF Step

-----------------------------------------------------------------------------
(* The same steps, seen by one request and by the documents *)

(* A request ends, begins with a status it reads, goes on, or commits.     *)
LEMMA RequestStep ==
  ASSUME WorkflowAssumption, TypeOK, RequestsHaveDocuments,
         NEW r \in Requests, Step(r)
  PROVE  /\ \A q \in Requests : q # r => req'[q] = req[q]
         /\ \/ req'[r].pc \in Finished /\ req'[r].op = None
            \/ /\ req'[r].pc = "read"
               /\ req'[r].op \in Operations
               /\ req'[r].doc \in Documents
               /\ req'[r].status = row[req'[r].doc].status
               /\ row[req'[r].doc].status # "absent"
               /\ req'[r].op = "create" =>
                    req'[r].status \in ReferenceInvoiceStatuses
               /\ UNCHANGED <<row, lines, events, xmlFile>>
            \/ /\ req[r].pc \in Deciding
               /\ req'[r].pc \in Deciding
               /\ req'[r].doc = req[r].doc
               /\ req'[r].op = req[r].op
               /\ req'[r].status = req[r].status
               /\ UNCHANGED <<row, lines, events>>
            \/ /\ req'[r].pc = "committed"
               /\ req'[r].op \in Operations
               /\ req'[r].doc \in Documents
<1>1. CASE CreateInvoice(r)
  <2>1. PICK d \in Documents :
          req' = [req EXCEPT ![r] =
                       [Idle EXCEPT !.pc = "committed", !.op = "create",
                                    !.type = "invoice", !.doc = d]]
    BY <1>1 DEF CreateInvoice, DocumentsOf
  <2>2. /\ req'[r].pc = "committed"
        /\ req'[r].op = "create"
        /\ req'[r].doc = d
        /\ \A q \in Requests : q # r => req'[q] = req[q]
    BY <2>1 DEF TypeOK, Idle
  <2> QED
    BY <2>2 DEF Operations
<1>2. ASSUME NEW type \in {"credit_note", "debit_note"},
             BeginCreateNote(r, type)
      PROVE  \/ \E i \in Documents :
                  /\ Load(r, "create", type, i, NoEdit)
                  /\ row[i].status \in ReferenceInvoiceStatuses
             \/ Finish(r, "refused")
  BY <1>2 DEF BeginCreateNote, DocumentsOf
<1>3. ASSUME NEW d \in Documents, NEW edit \in Edit, BeginUpdate(r, d, edit)
      PROVE  \/ /\ Load(r, "update", "invoice", d, edit)
                /\ row[d].status \in EditableStatuses
             \/ Finish(r, "refused")
  BY <1>3 DEF BeginUpdate
<1>4. ASSUME NEW d \in Documents, NEW a \in TransitionAction,
             BeginTransition(r, d, a)
      PROVE  \/ /\ Load(r, a, DocType[d], d, NoEdit)
                /\ row[d].status # "absent"
             \/ Finish(r, "refused")
  BY <1>4 DEF BeginTransition, Allowed, Transition, Transitions
<1>5. ASSUME NEW d \in Documents, BeginQueue(r, d)
      PROVE  \/ /\ Load(r, "queue", DocType[d], d, NoEdit)
                /\ row[d].status # "absent"
             \/ Finish(r, "refused")
  BY <1>5 DEF BeginQueue, DianSubmittableStatuses
<1>6. /\ NoEdit \in Edit
      /\ \A d \in Documents : DocType[d] \in DocumentType
      /\ {"credit_note", "debit_note", "invoice"} \subseteq DocumentType
      /\ {"create", "update", "queue"} \subseteq Operations
      /\ TransitionAction \subseteq Operations
      /\ "create" \notin TransitionAction
      /\ Finished \cap Working = {}
      /\ {"refused", "failed", "served", "crashed"} \subseteq Finished
      /\ "absent" \notin EditableStatuses \cup ReferenceInvoiceStatuses
  BY DEF NoEdit, Edit, WorkflowAssumption, DocumentType, Operations,
         TransitionAction, Finished, Working, EditableStatuses,
         ReferenceInvoiceStatuses
<1>7. CASE \E type \in {"credit_note", "debit_note"} : BeginCreateNote(r, type)
  <2>1. PICK type \in DocumentType :
          \/ \E i \in Documents :
               /\ Load(r, "create", type, i, NoEdit)
               /\ row[i].status \in ReferenceInvoiceStatuses
          \/ Finish(r, "refused")
    BY <1>2, <1>6, <1>7
  <2>2. UNCHANGED <<row, lines, events, xmlFile>>
    BY <1>7 DEF BeginCreateNote
  <2>3. CASE Finish(r, "refused")
    BY <2>3, <1>6, FinishType
  <2>4. ASSUME NEW i \in Documents, Load(r, "create", type, i, NoEdit),
               row[i].status \in ReferenceInvoiceStatuses
        PROVE  /\ \A q \in Requests : q # r => req'[q] = req[q]
               /\ req'[r].pc = "read"
               /\ req'[r].op = "create"
               /\ req'[r].doc = i
               /\ req'[r].status = row[i].status
    BY <2>4, <1>6, LoadType
  <2> QED
    BY <2>1, <2>2, <2>3, <2>4, <1>6
<1>8. CASE \/ \E d \in Documents, edit \in Edit : BeginUpdate(r, d, edit)
           \/ \E d \in Documents, a \in TransitionAction : BeginTransition(r, d, a)
           \/ \E d \in Documents : BeginQueue(r, d)
  <2>1. UNCHANGED <<row, lines, events, xmlFile>>
    BY <1>8 DEF BeginUpdate, BeginTransition, BeginQueue
  <2>2. CASE Finish(r, "refused")
    BY <2>2, <1>6, FinishType
  <2>3. ASSUME ~Finish(r, "refused")
        PROVE  \E d \in Documents, op \in Operations, type \in DocumentType,
                  edit \in Edit :
                 /\ Load(r, op, type, d, edit)
                 /\ op # "create"
                 /\ row[d].status # "absent"
    BY <1>8, <2>3, <1>3, <1>4, <1>5, <1>6
  <2>4. ASSUME NEW d \in Documents, NEW op \in Operations,
               NEW type \in DocumentType, NEW edit \in Edit,
               Load(r, op, type, d, edit)
        PROVE  /\ \A q \in Requests : q # r => req'[q] = req[q]
               /\ req'[r].pc = "read"
               /\ req'[r].op = op
               /\ req'[r].doc = d
               /\ req'[r].status = row[d].status
    BY <2>4, LoadType
  <2> QED
    BY <2>1, <2>2, <2>3, <2>4
<1>9. CASE \/ FlushHeader(r) \/ ReadExistingLines(r) \/ ReadLinesToSign(r)
           \/ SaveXml(r) \/ PublishTask(r)
  <2>1. UNCHANGED <<row, lines, events>>
    BY <1>9 DEF FlushHeader, ReadExistingLines, ReadLinesToSign, SaveXml,
                PublishTask
  <2>2. req[r].pc \in Deciding
    BY <1>9 DEF FlushHeader, ReadExistingLines, ReadLinesToSign, SaveXml,
                PublishTask, Deciding, Working
  <2>3. \/ Finish(r, "refused") \/ Finish(r, "failed")
        \/ \E pc \in Deciding : Goto(r, pc)
        \/ req' = [req EXCEPT ![r].pc = "collected",
                              ![r].lines = lines[req[r].doc]]
    BY <1>9 DEF FlushHeader, ReadExistingLines, ReadLinesToSign, SaveXml,
                PublishTask, Deciding, Working
  <2>4. req[r].doc \in Documents /\ lines[req[r].doc] \in SUBSET Requests
    BY <2>2 DEF RequestsHaveDocuments, Deciding, TypeOK
  <2>5. req[r] \in Request
    BY DEF TypeOK
  <2>6. CASE Finish(r, "refused") \/ Finish(r, "failed")
    BY <2>6, <1>6, FinishType
  <2>7. ASSUME NEW pc \in Deciding, Goto(r, pc)
        PROVE  /\ \A q \in Requests : q # r => req'[q] = req[q]
               /\ req'[r] = [req[r] EXCEPT !.pc = pc]
    BY <2>7, GotoType DEF Deciding
  <2>8. ASSUME req' = [req EXCEPT ![r].pc = "collected",
                                  ![r].lines = lines[req[r].doc]]
        PROVE  /\ \A q \in Requests : q # r => req'[q] = req[q]
               /\ req'[r] = [req[r] EXCEPT !.pc = "collected",
                                           !.lines = lines[req[r].doc]]
    BY <2>4, <2>8, CollectType
  <2>9. "collected" \in Deciding
    BY DEF Deciding, Working
  <2> QED
    BY <2>1, <2>2, <2>3, <2>5, <2>6, <2>7, <2>8, <2>9 DEF Request
<1>10. CASE \/ \E type \in {"credit_note", "debit_note"} :
                 CommitCreateNote(r, type)
            \/ CommitUpdate(r) \/ CommitTransition(r) \/ CommitQueued(r)
  <2>1. Goto(r, "committed") /\ req[r].pc \in Working
    BY <1>10 DEF CommitCreateNote, CommitUpdate, CommitTransition,
                 CommitQueued, Working
  <2>2. req[r] \in Request /\ req[r].doc \in Documents /\ req[r].op \in Operations
    BY <2>1 DEF TypeOK, RequestsHaveDocuments
  <2>3. /\ \A q \in Requests : q # r => req'[q] = req[q]
        /\ req'[r] = [req[r] EXCEPT !.pc = "committed"]
    BY <2>1, GotoType DEF Working
  <2> QED
    BY <2>2, <2>3 DEF Request
<1>11. CASE RefuseLines(r) \/ WriteAudit(r) \/ Crash(r)
  <2>1. Finish(r, "refused") \/ Finish(r, "served") \/ Finish(r, "crashed")
    BY <1>11 DEF RefuseLines, WriteAudit, Crash
  <2> QED
    BY <2>1, <1>6, FinishType
<1> QED
  BY <1>1, <1>7, <1>8, <1>9, <1>10, <1>11 DEF Step

(* The columns that say where a document is.                               *)
SameProgress(c) ==
  /\ row'[c].status = row[c].status
  /\ row'[c].signature = row[c].signature
  /\ row'[c].reference = row[c].reference

Created(r, d, type, from, to) ==
  /\ type = "created" /\ from = "absent" /\ to = "draft"
  /\ row[d].status = "absent"
  /\ row'[d].status = to
  /\ row'[d].signature = None
  /\ \/ row'[d].reference = None
     \/ /\ req[r].pc \in Deciding
        /\ req[r].op = "create"
        /\ row'[d].reference = req[r].doc

Moved(r, d, type, from, to) ==
  /\ req[r].pc \in Deciding
  /\ req[r].pc = IF req[r].op = "sign" THEN "saved" ELSE "read"
  /\ req[r].op \in TransitionAction
  /\ req[r].doc = d
  /\ req[r].status = from
  /\ type = EventTypeForTransition[req[r].op]
  /\ Transition(from, req[r].op, to)
  /\ row'[d].status = to
  /\ row'[d].signature = IF req[r].op = "sign" THEN Built(r)
                         ELSE row[d].signature
  /\ row'[d].reference = row[d].reference

Queued(r, d, type, from, to) ==
  /\ req[r].pc \in Deciding
  /\ req[r].doc = d
  /\ req[r].status = from
  /\ type = "dian_submit_queued" /\ to = from
  /\ SameProgress(d)

(* A document gets an event when it is created, moved or queued, and the   *)
(* rest of the documents keep their progress.                              *)
LEMMA DocumentStep ==
  ASSUME WorkflowAssumption, TypeOK, RequestsHaveDocuments,
         NEW r \in Requests, Step(r)
  PROVE  \/ events' = events /\ \A c \in Documents : SameProgress(c)
         \/ \E d \in Documents, type \in DocumentEventType,
               from \in Status, to \in Status :
              /\ RecordEvent(d, type, from, to)
              /\ \A c \in Documents : c # d => SameProgress(c)
              /\ \/ Created(r, d, type, from, to)
                 \/ Moved(r, d, type, from, to)
                 \/ Queued(r, d, type, from, to)
<1>1. ASSUME NEW d \in Documents, NEW reference \in Documents \cup {None},
             InsertDocument(r, d, reference),
             \/ reference = None
             \/ /\ req[r].pc \in Deciding
                /\ req[r].op = "create"
                /\ reference = req[r].doc
      PROVE  /\ RecordEvent(d, "created", "absent", "draft")
             /\ \A c \in Documents : c # d => SameProgress(c)
             /\ Created(r, d, "created", "absent", "draft")
  <2>1. /\ row[d].status = "absent"
        /\ row'[d].status = "draft"
        /\ row'[d].signature = None
        /\ row'[d].reference = reference
        /\ \A c \in Documents : c # d => row'[c] = row[c]
    BY <1>1, InsertEffect
  <2> QED
    BY <1>1, <2>1 DEF InsertDocument, SameProgress, Created
<1>2. /\ {"created", "dian_submit_queued"} \subseteq DocumentEventType
      /\ {"absent", "draft"} \subseteq Status
      /\ DocumentStatus \subseteq Status
      /\ \A a \in TransitionAction :
           EventTypeForTransition[a] \in DocumentEventType
  BY DEF DocumentEventType, Status, DocumentStatus, TransitionAction,
         EventTypeForTransition
<1>3. CASE CreateInvoice(r)
  <2>1. PICK d \in Documents : InsertDocument(r, d, None)
    BY <1>3 DEF CreateInvoice, DocumentsOf
  <2> QED
    BY <2>1, <1>1, <1>2
<1>4. CASE \E type \in {"credit_note", "debit_note"} : CommitCreateNote(r, type)
  <2>1. PICK d \in Documents :
          /\ InsertDocument(r, d, req[r].doc)
          /\ req[r].pc = "read"
          /\ req[r].op = "create"
    BY <1>4 DEF CommitCreateNote, DocumentsOf
  <2>2. req[r].doc \in Documents /\ req[r].pc \in Deciding
    BY <2>1 DEF RequestsHaveDocuments, Working, Deciding
  <2> QED
    BY <2>1, <2>2, <1>1, <1>2
<1>5. CASE CommitUpdate(r)
  BY <1>5, UpdateEffect DEF CommitUpdate, SameProgress
<1>6. CASE CommitTransition(r)
  <2>1. /\ req[r] \in Request
        /\ req[r].doc \in Documents
        /\ req[r].pc \in Deciding
        /\ req[r].pc = IF req[r].op = "sign" THEN "saved" ELSE "read"
    BY <1>6 DEF CommitTransition, RequestsHaveDocuments, TypeOK, Working,
                Deciding
  <2>2. req[r].status \in Status
    BY <2>1 DEF Request
  <2>3. PICK to \in DocumentStatus :
           /\ req[r].op \in TransitionAction
           /\ Transition(req[r].status, req[r].op, to)
           /\ RecordEvent(req[r].doc, EventTypeForTransition[req[r].op],
                          req[r].status, to)
           /\ row'[req[r].doc].status = to
           /\ row'[req[r].doc].signature =
                IF req[r].op = "sign" THEN Built(r)
                ELSE row[req[r].doc].signature
           /\ row'[req[r].doc].reference = row[req[r].doc].reference
           /\ \A c \in Documents : c # req[r].doc => row'[c] = row[c]
    BY <1>6, TransitionEffect
  <2>4. Moved(r, req[r].doc, EventTypeForTransition[req[r].op],
              req[r].status, to)
    BY <2>1, <2>3 DEF Moved
  <2>5. \A c \in Documents : c # req[r].doc => SameProgress(c)
    BY <2>3 DEF SameProgress
  <2>6. to \in Status /\ EventTypeForTransition[req[r].op] \in DocumentEventType
    BY <1>2, <2>3
  <2> QED
    BY <2>1, <2>2, <2>3, <2>4, <2>5, <2>6
<1>7. CASE CommitQueued(r)
  <2>1. /\ req[r] \in Request
        /\ req[r].doc \in Documents
        /\ req[r].pc \in Deciding
    BY <1>7 DEF CommitQueued, RequestsHaveDocuments, TypeOK, Working, Deciding
  <2>2. req[r].status \in Status
    BY <2>1 DEF Request
  <2>3. /\ RecordEvent(req[r].doc, "dian_submit_queued",
                       req[r].status, req[r].status)
        /\ \A c \in Documents : SameProgress(c)
    BY <1>7 DEF CommitQueued, SameProgress
  <2>4. Queued(r, req[r].doc, "dian_submit_queued",
               req[r].status, req[r].status)
    BY <2>1, <2>3 DEF Queued
  <2> QED
    BY <2>1, <2>2, <2>3, <2>4, <1>2
<1>8. CASE UNCHANGED <<row, events>>
  BY <1>8 DEF SameProgress
<1> QED
  BY <1>3, <1>4, <1>5, <1>6, <1>7, <1>8
  DEF Step, BeginCreateNote, BeginUpdate, FlushHeader, ReadExistingLines,
      RefuseLines, BeginTransition, ReadLinesToSign, SaveXml, BeginQueue,
      PublishTask, WriteAudit, Crash

-----------------------------------------------------------------------------
(* The history of a document only grows *)

(* What happens to the one document that gets an event.                    *)
LEMMA NewEvent ==
  ASSUME TypeOK, NEW d \in Documents, NEW type \in DocumentEventType,
         NEW from \in Status, NEW to \in Status,
         RecordEvent(d, type, from, to)
  PROVE  /\ Len(events[d]) \in Nat
         /\ Len(events'[d]) = Len(events[d]) + 1
         /\ \A i \in 1 .. Len(events[d]) : events'[d][i] = events[d][i]
         /\ events'[d][Len(events[d]) + 1].type = type
         /\ events'[d][Len(events[d]) + 1].from = from
         /\ events'[d][Len(events[d]) + 1].to = to
         /\ \A c \in Documents : c # d => events'[c] = events[c]
<1>1. events'[d][Len(events[d]) + 1] = [type |-> type, from |-> from, to |-> to]
  BY RecordEventType
<1>2. /\ events'[d][Len(events[d]) + 1].type = type
      /\ events'[d][Len(events[d]) + 1].from = from
      /\ events'[d][Len(events[d]) + 1].to = to
  BY <1>1
<1> QED
  BY <1>2, RecordEventType

(* Events stay, and a signature stays once its document exists.            *)
LEMMA HistoryGrows ==
  ASSUME WorkflowAssumption, TypeOK, RequestsHaveDocuments,
         NEW r \in Requests, Step(r), NEW c \in Documents
  PROVE  /\ \A s : Reached(c, s) => Reached(c, s)'
         /\ WasSigned(c) => WasSigned(c)'
         /\ row[c].status # "absent" /\ row[c].signature # None =>
              row'[c].signature # None
<1>1. CASE events' = events /\ \A e \in Documents : SameProgress(e)
  BY <1>1 DEF Reached, WasSigned, SameProgress
<1>2. ASSUME NEW d \in Documents, NEW type \in DocumentEventType,
             NEW from \in Status, NEW to \in Status,
             RecordEvent(d, type, from, to),
             \A e \in Documents : e # d => SameProgress(e),
             \/ Created(r, d, type, from, to)
             \/ Moved(r, d, type, from, to)
             \/ Queued(r, d, type, from, to)
      PROVE  /\ \A s : Reached(c, s) => Reached(c, s)'
             /\ WasSigned(c) => WasSigned(c)'
             /\ row[c].status # "absent" /\ row[c].signature # None =>
                  row'[c].signature # None
  <2>1. /\ Len(events[c]) \in Nat
        /\ Len(events'[c]) \in {Len(events[c]), Len(events[c]) + 1}
        /\ \A i \in 1 .. Len(events[c]) : events'[c][i] = events[c][i]
    <3>1. Len(events[c]) \in Nat
      BY DEF TypeOK
    <3>2. CASE c = d
      BY <1>2, <3>2, NewEvent
    <3>3. CASE c # d
      <4>1. events'[c] = events[c]
        BY <1>2, <3>3, NewEvent
      <4> QED
        BY <3>1, <4>1
    <3> QED
      BY <3>2, <3>3
  <2>2. \A i \in 1 .. Len(events[c]) : i \in 1 .. Len(events'[c])
    BY <2>1
  <2>3. row[c].status # "absent" /\ row[c].signature # None =>
          row'[c].signature # None
    BY <1>2, BuiltType DEF SameProgress, Created, Moved, Queued
  <2> QED
    BY <2>1, <2>2, <2>3 DEF Reached, WasSigned
<1> QED
  BY <1>1, <1>2, DocumentStep

(* A status that was reached is never "absent" any more.                   *)
LEMMA ReachedExists ==
  ASSUME TypeOK, StatusIsLastEvent, NEW d \in Documents, NEW s, Reached(d, s)
  PROVE  /\ row[d].status # "absent"
         /\ Len(events[d]) \in Nat
         /\ Len(events[d]) >= 1
<1>1. events[d] \in Seq(Event)
  BY DEF TypeOK
<1>2. Len(events[d]) \in Nat /\ Len(events[d]) >= 1
  BY <1>1 DEF Reached
<1>3. events[d] # <<>>
  BY <1>2
<1> QED
  BY <1>2, <1>3 DEF StatusIsLastEvent

-----------------------------------------------------------------------------
(* One lemma per conjunct of the inductive invariant *)

(* A working request keeps a document and an operation.                    *)
LEMMA RequestsHaveDocumentsStep ==
  ASSUME WorkflowAssumption, TypeOK, RequestsHaveDocuments,
         NEW r \in Requests, Step(r)
  PROVE  RequestsHaveDocuments'
<1>1. Finished \cap Working = {} /\ Deciding \subseteq Working
  BY DEF Finished, Working, Deciding
<1> QED
  BY <1>1, RequestStep DEF RequestsHaveDocuments

(* The new event is the last that changes the status, or does not change   *)
(* it and the status stays.                                                *)
LEMMA StatusIsLastEventStep ==
  ASSUME WorkflowAssumption, TypeOK, RequestsHaveDocuments,
         StatusIsLastEvent, StatusesWereReached,
         NEW r \in Requests, Step(r)
  PROVE  StatusIsLastEvent'
<1>1. CASE events' = events /\ \A c \in Documents : SameProgress(c)
  BY <1>1 DEF StatusIsLastEvent, SameProgress
<1>2. ASSUME NEW d \in Documents, NEW type \in DocumentEventType,
             NEW from \in Status, NEW to \in Status,
             RecordEvent(d, type, from, to),
             \A e \in Documents : e # d => SameProgress(e),
             \/ Created(r, d, type, from, to)
             \/ Moved(r, d, type, from, to)
             \/ Queued(r, d, type, from, to)
      PROVE  StatusIsLastEvent'
  <2> DEFINE n == Len(events[d])
  <2>1. /\ n \in Nat
        /\ Len(events'[d]) = n + 1
        /\ \A i \in 1 .. n : events'[d][i] = events[d][i]
        /\ events'[d][n + 1].type = type
        /\ events'[d][n + 1].to = to
        /\ \A c \in Documents : c # d => events'[c] = events[c]
    BY <1>2, NewEvent
  <2>2. /\ events'[d] # <<>>
        /\ row'[d].status # "absent"
        /\ type # "dian_submit_queued" => row'[d].status = to
        /\ type = "dian_submit_queued" => row'[d].status = row[d].status
    <3>1. events'[d] # <<>>
      BY <2>1
    <3>2. CASE Created(r, d, type, from, to)
      BY <3>1, <3>2 DEF Created
    <3>3. CASE Moved(r, d, type, from, to)
      BY <3>1, <3>3 DEF Moved, Transition, Transitions,
                        EventTypeForTransition, TransitionAction
    <3>4. CASE Queued(r, d, type, from, to)
      <4>1. Reached(d, from)
        BY <3>4 DEF Queued, StatusesWereReached
      <4> QED
        BY <3>1, <3>4, <4>1, ReachedExists DEF Queued, SameProgress
    <3> QED
      BY <1>2, <3>2, <3>3, <3>4
  <2>3. ASSUME NEW i \in 1 .. n + 1,
               ChangesStatus(events'[d][i]),
               \A j \in i + 1 .. n + 1 : ~ChangesStatus(events'[d][j])
        PROVE  row'[d].status = events'[d][i].to
    <3>1. CASE i = n + 1
      BY <2>1, <2>2, <2>3, <3>1 DEF ChangesStatus
    <3>2. CASE i # n + 1
      <4>1. i \in 1 .. n /\ n + 1 \in i + 1 .. n + 1
        BY <2>1, <3>2
      <4>2. type = "dian_submit_queued"
        BY <2>1, <2>3, <4>1 DEF ChangesStatus
      <4>3. \A j \in i + 1 .. n : ~ChangesStatus(events[d][j])
        BY <2>1, <2>3, <4>1
      <4>4. events'[d][i] = events[d][i] /\ ChangesStatus(events[d][i])
        BY <2>1, <2>3, <4>1
      <4>5. row[d].status = events[d][i].to
        BY <4>1, <4>3, <4>4 DEF StatusIsLastEvent
      <4> QED
        BY <2>2, <4>2, <4>4, <4>5
    <3> QED
      BY <3>1, <3>2
  <2>4. ASSUME NEW c \in Documents, c # d
        PROVE  events'[c] = events[c] /\ row'[c].status = row[c].status
    BY <1>2, <2>1, <2>4 DEF SameProgress
  <2> HIDE DEF n
  <2>5. /\ row'[d].status = "absent" <=> events'[d] = <<>>
        /\ \A i \in 1 .. Len(events'[d]) :
             /\ ChangesStatus(events'[d][i])
             /\ \A j \in i + 1 .. Len(events'[d]) :
                  ~ChangesStatus(events'[d][j])
             => row'[d].status = events'[d][i].to
    <3>1. row'[d].status = "absent" <=> events'[d] = <<>>
      BY <2>2
    <3> QED
      BY <2>1, <2>3, <3>1
  <2>6. ASSUME NEW c \in Documents, c # d
        PROVE  /\ row'[c].status = "absent" <=> events'[c] = <<>>
               /\ \A i \in 1 .. Len(events'[c]) :
                    /\ ChangesStatus(events'[c][i])
                    /\ \A j \in i + 1 .. Len(events'[c]) :
                         ~ChangesStatus(events'[c][j])
                    => row'[c].status = events'[c][i].to
    BY <2>4, <2>6 DEF StatusIsLastEvent
  <2> QED
    BY <2>5, <2>6 DEF StatusIsLastEvent, ChangesStatus
<1> QED
  BY <1>1, <1>2, DocumentStep

(* The new status is that of the new event; a request reads a status that  *)
(* was reached, and history grows.                                         *)
LEMMA StatusesWereReachedStep ==
  ASSUME WorkflowAssumption, TypeOK, RequestsHaveDocuments,
         StatusIsLastEvent, StatusesWereReached,
         NEW r \in Requests, Step(r)
  PROVE  StatusesWereReached'
<1>1. ASSUME NEW c \in Documents, row'[c].status # "absent"
      PROVE  Reached(c, row[c].status)'
  <2>1. CASE events' = events /\ \A e \in Documents : SameProgress(e)
    BY <1>1, <2>1 DEF SameProgress, StatusesWereReached, Reached
  <2>2. ASSUME NEW d \in Documents, NEW type \in DocumentEventType,
               NEW from \in Status, NEW to \in Status,
               RecordEvent(d, type, from, to),
               \A e \in Documents : e # d => SameProgress(e),
               \/ Created(r, d, type, from, to)
               \/ Moved(r, d, type, from, to)
               \/ Queued(r, d, type, from, to)
        PROVE  Reached(c, row[c].status)'
    <3>1. CASE SameProgress(c)
      <4>1. Reached(c, row[c].status)
        BY <1>1, <3>1 DEF SameProgress, StatusesWereReached
      <4>2. Reached(c, row[c].status) =>
              \E i \in 1 .. Len(events'[c]) : events'[c][i].to = row[c].status
        BY HistoryGrows DEF Reached
      <4> QED
        BY <3>1, <4>1, <4>2 DEF SameProgress, Reached
    <3>2. CASE c = d /\ row'[d].status = to
      BY <2>2, <3>2, NewEvent DEF Reached
    <3> QED
      BY <2>2, <3>1, <3>2 DEF Created, Moved, Queued
  <2> QED
    BY <2>1, <2>2, DocumentStep
<1>2. ASSUME NEW q \in Requests, req'[q].pc \in Deciding
      PROVE  Reached(req[q].doc, req[q].status)'
  <2>1. \/ /\ req[q].pc \in Deciding
           /\ req'[q].doc = req[q].doc
           /\ req'[q].status = req[q].status
        \/ /\ req'[q].doc \in Documents
           /\ req'[q].status = row[req'[q].doc].status
           /\ row[req'[q].doc].status # "absent"
           /\ UNCHANGED events
    BY <1>2, RequestStep DEF Finished, Deciding, Working
  <2>2. CASE /\ req[q].pc \in Deciding
             /\ req'[q].doc = req[q].doc
             /\ req'[q].status = req[q].status
    <3>1. req[q].doc \in Documents /\ Reached(req[q].doc, req[q].status)
      BY <2>2 DEF RequestsHaveDocuments, StatusesWereReached, Deciding
    <3>2. \A s : Reached(req[q].doc, s) =>
            \E i \in 1 .. Len(events'[req[q].doc]) :
               events'[req[q].doc][i].to = s
      BY <3>1, HistoryGrows DEF Reached
    <3> QED
      BY <2>2, <3>1, <3>2 DEF Reached
  <2>3. CASE /\ req'[q].doc \in Documents
             /\ req'[q].status = row[req'[q].doc].status
             /\ row[req'[q].doc].status # "absent"
             /\ UNCHANGED events
    BY <2>3 DEF StatusesWereReached, Reached
  <2> QED
    BY <2>1, <2>2, <2>3
<1> QED
  BY <1>1, <1>2 DEF StatusesWereReached, Reached, Deciding, Working

(* A new first event is a creation, and a later one starts from a status   *)
(* that its request found reached.                                         *)
LEMMA EventsAreConnectedStep ==
  ASSUME WorkflowAssumption, TypeOK, RequestsHaveDocuments,
         StatusIsLastEvent, StatusesWereReached, EventsAreConnected,
         NEW r \in Requests, Step(r)
  PROVE  EventsAreConnected'
<1>1. CASE events' = events
  BY <1>1 DEF EventsAreConnected
<1>2. ASSUME NEW d \in Documents, NEW type \in DocumentEventType,
             NEW from \in Status, NEW to \in Status,
             RecordEvent(d, type, from, to),
             \/ Created(r, d, type, from, to)
             \/ Moved(r, d, type, from, to)
             \/ Queued(r, d, type, from, to)
      PROVE  EventsAreConnected'
  <2> DEFINE n == Len(events[d])
  <2>1. /\ n \in Nat
        /\ Len(events'[d]) = n + 1
        /\ \A i \in 1 .. n : events'[d][i] = events[d][i]
        /\ events'[d][n + 1].type = type
        /\ events'[d][n + 1].from = from
        /\ \A c \in Documents : c # d => events'[c] = events[c]
    BY <1>2, NewEvent
  <2>2. \/ n = 0 /\ type = "created"
        \/ n >= 1 /\ Reached(d, from)
    <3>1. CASE Created(r, d, type, from, to)
      <4>1. events[d] = <<>>
        BY <3>1 DEF Created, StatusIsLastEvent
      <4> QED
        BY <3>1, <4>1 DEF Created
    <3>2. CASE Moved(r, d, type, from, to) \/ Queued(r, d, type, from, to)
      <4>1. Reached(d, from)
        BY <3>2 DEF Moved, Queued, StatusesWereReached
      <4> QED
        BY <4>1, ReachedExists
    <3> QED
      BY <1>2, <3>1, <3>2
  <2> HIDE DEF n
  <2>3. ASSUME NEW i \in 1 .. Len(events'[d])
        PROVE  IF i = 1
                 THEN events'[d][1].type = "created"
                 ELSE \E j \in 1 .. i - 1 :
                        events'[d][j].to = events'[d][i].from
    <3>1. CASE i = n + 1 /\ n = 0
      BY <2>1, <2>2, <3>1
    <3>2. CASE i = n + 1 /\ n # 0
      <4>1. PICK j \in 1 .. n : events[d][j].to = from
        BY <2>2, <3>2 DEF Reached, n
      <4>2. j \in 1 .. i - 1 /\ events'[d][j].to = events'[d][i].from
        BY <2>1, <3>2, <4>1
      <4> QED
        BY <2>1, <3>2, <4>2
    <3>3. CASE i \in 1 .. n
      <4>1. IF i = 1
              THEN events[d][1].type = "created"
              ELSE \E j \in 1 .. i - 1 : events[d][j].to = events[d][i].from
        BY <3>3 DEF EventsAreConnected, n
      <4>2. \A j \in 1 .. i - 1 : j \in 1 .. n
        BY <2>1, <3>3
      <4> QED
        BY <2>1, <3>3, <4>1, <4>2
    <3> QED
      BY <2>1, <3>1, <3>2, <3>3
  <2>4. ASSUME NEW c \in Documents, c # d, NEW i \in 1 .. Len(events'[c])
        PROVE  IF i = 1
                 THEN events'[c][1].type = "created"
                 ELSE \E j \in 1 .. i - 1 :
                        events'[c][j].to = events'[c][i].from
    BY <2>1, <2>4 DEF EventsAreConnected
  <2>5. \A c \in Documents : \A i \in 1 .. Len(events'[c]) :
          IF i = 1
            THEN events'[c][1].type = "created"
            ELSE \E j \in 1 .. i - 1 : events'[c][j].to = events'[c][i].from
    BY ONLY <2>3, <2>4
  <2> QED
    BY ONLY <2>5 DEF EventsAreConnected
<1> QED
  BY <1>1, <1>2, DocumentStep

(* A document becomes issued by a signature or from an issued status that  *)
(* its request read.                                                       *)
LEMMA IssuedWereSignedStep ==
  ASSUME WorkflowAssumption, TypeOK, RequestsHaveDocuments,
         StatusIsLastEvent, StatusesWereReached, IssuedWereSigned,
         NEW r \in Requests, Step(r)
  PROVE  IssuedWereSigned'
<1>1. ASSUME NEW c \in Documents, row'[c].status \in IssuedStatuses
      PROVE  row'[c].signature # None /\ WasSigned(c)'
  <2>1. CASE SameProgress(c)
    <3>1. /\ row[c].signature # None /\ WasSigned(c)
          /\ row[c].status # "absent"
      BY <1>1, <2>1 DEF SameProgress, IssuedWereSigned, IssuedStatuses
    <3> QED
      BY <3>1, HistoryGrows
  <2>2. ASSUME NEW type \in DocumentEventType,
               NEW from \in Status, NEW to \in Status,
               RecordEvent(c, type, from, to), Moved(r, c, type, from, to)
        PROVE  row'[c].signature # None /\ WasSigned(c)'
    <3>1. CASE req[r].op = "sign"
      <4>1. type = "signed" /\ row'[c].signature # None
        BY <2>2, <3>1, BuiltType
        DEF Moved, EventTypeForTransition, TransitionAction
      <4>2. Len(events'[c]) \in Nat /\ Len(events'[c]) >= 1
            /\ events'[c][Len(events'[c])].type = type
        BY <2>2, NewEvent
      <4> QED
        BY <4>1, <4>2 DEF WasSigned
    <3>2. CASE req[r].op # "sign"
      <4>1. from \in IssuedStatuses
        BY <1>1, <2>2, <3>2
        DEF Moved, Transition, Transitions, IssuedStatuses
      <4>2. row[c].signature # None /\ WasSigned(c)
        BY <2>2, <4>1 DEF Moved, IssuedWereSigned
      <4>3. Reached(c, from)
        BY <2>2 DEF Moved, StatusesWereReached
      <4> QED
        BY <4>2, <4>3, ReachedExists, HistoryGrows
    <3> QED
      BY <3>1, <3>2
  <2>3. ASSUME NEW type, NEW from, NEW to, Created(r, c, type, from, to)
        PROVE  FALSE
    BY <1>1, <2>3 DEF Created, IssuedStatuses
  <2> QED
    BY <2>1, <2>2, <2>3, DocumentStep DEF Queued
<1>2. ASSUME NEW q \in Requests, req'[q].pc \in Deciding,
             req'[q].status \in IssuedStatuses
      PROVE  row'[req'[q].doc].signature # None /\ WasSigned(req[q].doc)'
  <2>1. \/ /\ req[q].pc \in Deciding
           /\ req'[q].doc = req[q].doc
           /\ req'[q].status = req[q].status
        \/ /\ req'[q].doc \in Documents
           /\ req'[q].status = row[req'[q].doc].status
           /\ UNCHANGED <<row, events>>
    BY <1>2, RequestStep DEF Finished, Deciding, Working
  <2>2. CASE /\ req[q].pc \in Deciding
             /\ req'[q].doc = req[q].doc
             /\ req'[q].status = req[q].status
    <3>1. /\ req[q].doc \in Documents
          /\ row[req[q].doc].signature # None
          /\ WasSigned(req[q].doc)
          /\ row[req[q].doc].status # "absent"
      BY <1>2, <2>2, ReachedExists
      DEF RequestsHaveDocuments, IssuedWereSigned, StatusesWereReached,
          Deciding
    <3>2. /\ row'[req[q].doc].signature # None
          /\ \E i \in 1 .. Len(events'[req[q].doc]) :
               events'[req[q].doc][i].type = "signed"
      BY <3>1, HistoryGrows DEF WasSigned
    <3> QED
      BY <2>2, <3>2 DEF WasSigned
  <2>3. CASE /\ req'[q].doc \in Documents
             /\ req'[q].status = row[req'[q].doc].status
             /\ UNCHANGED <<row, events>>
    BY <1>2, <2>3 DEF IssuedWereSigned, WasSigned
  <2> QED
    BY <2>1, <2>2, <2>3
<1> QED
  BY <1>1, <1>2 DEF IssuedWereSigned, WasSigned, Deciding, Working

(* A creation keeps the status it found in the invoice.                    *)
LEMMA CreatedNotesReferStep ==
  ASSUME WorkflowAssumption, TypeOK, RequestsHaveDocuments, CreatedNotesRefer,
         NEW r \in Requests, Step(r)
  PROVE  CreatedNotesRefer'
<1>1. Finished \cap Deciding = {} /\ "committed" \notin Deciding
  BY DEF Finished, Working, Deciding
<1> QED
  BY <1>1, RequestStep DEF CreatedNotesRefer

(* A new note refers to the invoice that its request found issued.         *)
LEMMA NotesReferStep ==
  ASSUME WorkflowAssumption, TypeOK, RequestsHaveDocuments, IssuedWereSigned,
         CreatedNotesRefer, NotesReferToSignedInvoices,
         NEW r \in Requests, Step(r)
  PROVE  NotesReferToSignedInvoices'
<1>1. ASSUME NEW n \in Documents, row'[n].reference # None
      PROVE  \E i \in Documents : row'[n].reference = i /\ WasSigned(i)
  <2>1. CASE row'[n].reference = row[n].reference
    <3>1. row[n] \in Row
      BY DEF TypeOK
    <3>2. row[n].reference \in Documents
      BY <1>1, <2>1, <3>1 DEF Row
    <3> QED
      BY <1>1, <2>1, <3>2 DEF NotesReferToSignedInvoices
  <2>2. CASE /\ req[r].pc \in Deciding
             /\ req[r].op = "create"
             /\ row'[n].reference = req[r].doc
    <3>1. req[r].status \in IssuedStatuses
      BY <2>2 DEF CreatedNotesRefer, ReferenceInvoiceStatuses, IssuedStatuses
    <3>2. req[r].doc \in Documents /\ WasSigned(req[r].doc)
      BY <2>2, <3>1 DEF IssuedWereSigned, RequestsHaveDocuments, Deciding
    <3> QED
      BY <2>2, <3>2
  <2> QED
    BY <1>1, <2>1, <2>2, DocumentStep
    DEF SameProgress, Created, Moved, Queued
<1>2. ASSUME NEW i \in Documents, WasSigned(i)
      PROVE  \E k \in 1 .. Len(events'[i]) : events'[i][k].type = "signed"
  BY <1>2, HistoryGrows DEF WasSigned
<1>3. \A n \in Documents :
        row'[n].reference # None =>
          \E k \in 1 .. Len(events'[row'[n].reference]) :
             events'[row'[n].reference][k].type = "signed"
  BY <1>1, <1>2
<1> QED
  BY <1>3 DEF NotesReferToSignedInvoices, WasSigned

(* The XML file is written by a request that collected lines to sign.      *)
LEMMA SigningStep ==
  ASSUME WorkflowAssumption, TypeOK, RequestsHaveDocuments,
         NEW r \in Requests, Step(r)
  PROVE  \/ /\ UNCHANGED xmlFile
            /\ req'[r].op = "sign" => req'[r].pc \notin {"collected", "saved"}
         \/ /\ UNCHANGED <<xmlFile, row>>
            /\ req'[r].pc = "collected"
            /\ req'[r].lines # {}
         \/ /\ UNCHANGED row
            /\ req[r].pc = "collected"
            /\ req[r].op = "sign"
            /\ req[r].doc \in Documents
            /\ xmlFile' = [xmlFile EXCEPT ![req[r].doc] = Built(r)]
            /\ req'[r].pc = "saved"
            /\ req'[r].doc = req[r].doc
            /\ req'[r].lines = req[r].lines
<1>1. req[r] \in Request
  BY DEF TypeOK
<1>2. CASE SaveXml(r)
  <2>1. Goto(r, "saved") /\ req[r].pc = "collected" /\ req[r].op = "sign"
    BY <1>2 DEF SaveXml
  <2>2. req'[r] = [req[r] EXCEPT !.pc = "saved"]
    BY <2>1, GotoType DEF Working
  <2>3. /\ req'[r].pc = "saved"
        /\ req'[r].doc = req[r].doc
        /\ req'[r].lines = req[r].lines
    BY <1>1, <2>2 DEF Request
  <2>4. req[r].doc \in Documents
    BY <2>1 DEF RequestsHaveDocuments, Working
  <2> QED
    BY <1>2, <2>1, <2>3, <2>4 DEF SaveXml
<1>3. CASE ReadLinesToSign(r) /\ lines[req[r].doc] # {}
  <2>1. lines[req[r].doc] \in SUBSET Requests
    BY <1>3 DEF ReadLinesToSign, RequestsHaveDocuments, Working, TypeOK
  <2>2. req' = [req EXCEPT ![r].pc = "collected",
                           ![r].lines = lines[req[r].doc]]
    BY <1>3 DEF ReadLinesToSign
  <2>3. req'[r] = [req[r] EXCEPT !.pc = "collected",
                                 !.lines = lines[req[r].doc]]
    BY <2>1, <2>2, CollectType
  <2>4. req'[r].pc = "collected" /\ req'[r].lines = lines[req[r].doc]
    BY <1>1, <2>3 DEF Request
  <2> QED
    BY <1>3, <2>4 DEF ReadLinesToSign
<1>4. CASE ReadExistingLines(r)
  <2>1. /\ req[r].op = "update"
        /\ req'[r].op = req[r].op
    BY <1>1, <1>4 DEF ReadExistingLines, TypeOK
  <2> QED
    BY <1>4, <2>1 DEF ReadExistingLines
<1>5. CASE FlushHeader(r) \/ PublishTask(r)
           \/ (ReadLinesToSign(r) /\ lines[req[r].doc] = {})
  <2>1. UNCHANGED xmlFile
    BY <1>5 DEF FlushHeader, PublishTask, ReadLinesToSign
  <2>2. \/ Goto(r, "flushed") \/ Goto(r, "published")
        \/ Finish(r, "failed") \/ Finish(r, "refused")
    BY <1>5 DEF FlushHeader, PublishTask, ReadLinesToSign
  <2>3. req'[r].pc \in {"flushed", "published", "failed", "refused"}
    BY <2>2 DEF Goto, Finish, TypeOK, Request, Idle
  <2> QED
    BY <2>1, <2>3
<1>6. ASSUME ~SaveXml(r), ~ReadLinesToSign(r), ~ReadExistingLines(r),
             ~FlushHeader(r), ~PublishTask(r)
      PROVE  /\ UNCHANGED xmlFile
             /\ req'[r].pc \notin {"collected", "saved"}
  <2>1. UNCHANGED xmlFile
    BY <1>6 DEF Step, CreateInvoice, InsertDocument, BeginCreateNote,
                CommitCreateNote, BeginUpdate, RefuseLines, CommitUpdate,
                BeginTransition, CommitTransition, BeginQueue, CommitQueued,
                WriteAudit, Crash
  <2>2. \/ \E op, type, d, edit : Load(r, op, type, d, edit)
        \/ \E outcome \in {"refused", "served", "crashed"} : Finish(r, outcome)
        \/ Goto(r, "committed")
        \/ CreateInvoice(r)
    BY <1>6 DEF Step, BeginCreateNote, CommitCreateNote, BeginUpdate,
                RefuseLines, CommitUpdate, BeginTransition, CommitTransition,
                BeginQueue, CommitQueued, WriteAudit, Crash
  <2>3. ASSUME NEW op, NEW type, NEW d, NEW edit, Load(r, op, type, d, edit)
        PROVE  req'[r].pc = "read"
    BY <2>3 DEF Load, TypeOK
  <2>4. ASSUME NEW outcome \in {"refused", "served", "crashed"},
               Finish(r, outcome)
        PROVE  req'[r].pc = outcome
    BY <2>4 DEF Finish, TypeOK, Idle
  <2>5. ASSUME Goto(r, "committed")
        PROVE  req'[r].pc = "committed"
    BY <1>1, <2>5 DEF Goto, TypeOK, Request
  <2>6. ASSUME CreateInvoice(r)
        PROVE  req'[r].pc = "committed"
    <3>1. PICK d \in Documents :
            req' = [req EXCEPT ![r] =
                      [Idle EXCEPT !.pc = "committed", !.op = "create",
                                   !.type = "invoice", !.doc = d]]
      BY <2>6 DEF CreateInvoice, DocumentsOf
    <3> QED
      BY <3>1 DEF TypeOK, Idle
  <2> QED
    BY <2>1, <2>2, <2>3, <2>4, <2>5, <2>6
<1> QED
  BY <1>2, <1>3, <1>4, <1>5, <1>6

(* What the two xml invariants need to know of a step.                     *)
LEMMA XmlStep ==
  ASSUME WorkflowAssumption, TypeOK, RequestsHaveDocuments,
         SigningHasXml, SignedXmlHasLines,
         NEW r \in Requests, Step(r)
  PROVE  SigningHasXml' /\ SignedXmlHasLines'
<1>1. \/ /\ UNCHANGED xmlFile
         /\ req'[r].op = "sign" =>
              /\ req'[r].pc = "collected" => req'[r].lines # {}
              /\ req'[r].pc # "saved"
      \/ /\ UNCHANGED row
         /\ req[r].doc \in Documents
         /\ xmlFile' = [xmlFile EXCEPT ![req[r].doc] = Built(r)]
         /\ req[r].lines # {}
         /\ req'[r].pc = "saved"
         /\ req'[r].doc = req[r].doc
         /\ req'[r].lines = req[r].lines
  BY SigningStep DEF SigningHasXml
<1>2. /\ Built(r) # None
      /\ Built(r).lines = req[r].lines
  BY BuiltType
<1>3. \A q \in Requests : q # r => req'[q] = req[q]
  BY RequestStep
<1>4. ASSUME NEW d \in Documents
      PROVE  /\ xmlFile[d] # None => xmlFile'[d] # None
             /\ xmlFile'[d] # None => xmlFile'[d].lines # {}
  BY <1>1, <1>2 DEF TypeOK, SignedXmlHasLines
<1>5. ASSUME NEW q \in Requests, req'[q].op = "sign"
      PROVE  /\ req'[q].pc \in {"collected", "saved"} => req'[q].lines # {}
             /\ req'[q].pc = "saved" => xmlFile'[req'[q].doc] # None
  <2>1. CASE q = r
    BY <1>1, <1>2, <1>5, <2>1 DEF TypeOK
  <2>2. CASE q # r
    <3>1. req'[q] = req[q]
      BY <1>3, <2>2
    <3>2. req[q].pc = "saved" => req[q].doc \in Documents
      BY DEF RequestsHaveDocuments, Working
    <3> QED
      BY <1>4, <1>5, <3>1, <3>2 DEF SigningHasXml
  <2> QED
    BY <2>1, <2>2
<1>6. ASSUME NEW d \in Documents, row'[d].signature # None
      PROVE  row'[d].signature.lines # {} /\ xmlFile'[d] # None
  <2>1. CASE row'[d].signature = row[d].signature
    BY <1>4, <1>6, <2>1 DEF SigningHasXml, SignedXmlHasLines
  <2>2. CASE /\ req[r].pc = "saved"
             /\ req[r].op = "sign"
             /\ req[r].doc = d
             /\ row'[d].signature = Built(r)
    BY <1>2, <1>4, <2>2 DEF SigningHasXml
  <2> QED
    BY <1>6, <2>1, <2>2, DocumentStep
    DEF SameProgress, Created, Moved, Queued
<1> QED
  BY <1>4, <1>5, <1>6 DEF SigningHasXml, SignedXmlHasLines

-----------------------------------------------------------------------------
(* The inductive invariant *)

(* The initial states satisfy the inductive invariant.                     *)
LEMMA WorkflowInit == ASSUME WorkflowAssumption, Init PROVE WorkflowInv
<1>1. TypeOK
  BY DEF Init, TypeOK, NoRow, Row, Status, Writer, Idle, Request, NoEdit, Edit
<1>2. /\ \A d \in Documents : row[d] = NoRow /\ events[d] = <<>>
                              /\ xmlFile[d] = None
      /\ \A r \in Requests : req[r] = Idle
  BY DEF Init
<1>3. /\ NoRow.status = "absent"
      /\ NoRow.signature = None
      /\ NoRow.reference = None
      /\ Idle.pc = "idle"
      /\ "idle" \notin Working
      /\ "absent" \notin IssuedStatuses
  BY DEF NoRow, Idle, Working, IssuedStatuses
<1>4. Len(<<>>) = 0
  OBVIOUS
<1> QED
  BY <1>1, <1>2, <1>3, <1>4
  DEF WorkflowInv, RequestsHaveDocuments, StatusIsLastEvent,
      StatusesWereReached, EventsAreConnected, IssuedWereSigned,
      CreatedNotesRefer, NotesReferToSignedInvoices, SigningHasXml,
      SignedXmlHasLines, Deciding, Working

(* Every step keeps the inductive invariant.                               *)
LEMMA WorkflowStep ==
  ASSUME WorkflowAssumption, WorkflowInv, [Next]_vars PROVE WorkflowInv'
<1>1. CASE Next
  <2>1. PICK r \in Requests : Step(r)
    BY <1>1, NextIsStep
  <2>2. TypeOK' /\ RequestsHaveDocuments'
    BY <2>1, TypeStep, RequestsHaveDocumentsStep DEF WorkflowInv
  <2>3. StatusIsLastEvent' /\ StatusesWereReached' /\ EventsAreConnected'
    BY <2>1, StatusIsLastEventStep, StatusesWereReachedStep,
       EventsAreConnectedStep DEF WorkflowInv
  <2>4. IssuedWereSigned' /\ CreatedNotesRefer' /\ NotesReferToSignedInvoices'
    BY <2>1, IssuedWereSignedStep, CreatedNotesReferStep, NotesReferStep
    DEF WorkflowInv
  <2>5. SigningHasXml' /\ SignedXmlHasLines'
    BY <2>1, XmlStep DEF WorkflowInv
  <2> QED
    BY <2>2, <2>3, <2>4, <2>5 DEF WorkflowInv
<1>2. CASE UNCHANGED vars
  <2>1. TypeOK' /\ RequestsHaveDocuments'
    BY <1>2 DEF vars, WorkflowInv, TypeOK, RequestsHaveDocuments
  <2>2. StatusIsLastEvent'
    BY <1>2 DEF vars, WorkflowInv, StatusIsLastEvent, ChangesStatus
  <2>3. StatusesWereReached'
    BY <1>2 DEF vars, WorkflowInv, StatusesWereReached, Reached
  <2>4. EventsAreConnected'
    BY <1>2 DEF vars, WorkflowInv, EventsAreConnected
  <2>5. IssuedWereSigned' /\ CreatedNotesRefer' /\ NotesReferToSignedInvoices'
    BY <1>2 DEF vars, WorkflowInv, IssuedWereSigned, CreatedNotesRefer,
                NotesReferToSignedInvoices, WasSigned
  <2>6. SigningHasXml' /\ SignedXmlHasLines'
    BY <1>2 DEF vars, WorkflowInv, SigningHasXml, SignedXmlHasLines
  <2> QED
    BY <2>1, <2>2, <2>3, <2>4, <2>5, <2>6 DEF WorkflowInv
<1> QED
  BY <1>1, <1>2

(* What goes on beside the handlers (downloads, workers) disturbs none as  *)
(* long as it writes no document: messages come and go, deaths are counted. *)
LEMMA HandlersUndisturbed ==
  ASSUME WorkflowInv, broker' \subseteq Message, crashes' \in Nat,
         UNCHANGED <<row, lines, events, xmlFile, lock, audit, req>>
  PROVE  WorkflowInv'
<1>1. TypeOK' /\ RequestsHaveDocuments'
  BY DEF WorkflowInv, TypeOK, RequestsHaveDocuments
<1>2. StatusIsLastEvent'
  BY DEF WorkflowInv, StatusIsLastEvent, ChangesStatus
<1>3. StatusesWereReached'
  BY DEF WorkflowInv, StatusesWereReached, Reached
<1>4. EventsAreConnected'
  BY DEF WorkflowInv, EventsAreConnected
<1>5. IssuedWereSigned' /\ CreatedNotesRefer' /\ NotesReferToSignedInvoices'
  BY DEF WorkflowInv, IssuedWereSigned, CreatedNotesRefer,
         NotesReferToSignedInvoices, WasSigned
<1>6. SigningHasXml' /\ SignedXmlHasLines'
  BY DEF WorkflowInv, SigningHasXml, SignedXmlHasLines
<1> QED
  BY <1>1, <1>2, <1>3, <1>4, <1>5, <1>6 DEF WorkflowInv

(* Whatever the requests, documents, overlaps and deaths: what a request   *)
(* knows of its document, as WorkflowInv says, is true in every state.     *)
THEOREM WorkflowInvariant == Spec => []WorkflowInv
<1>1. Init => WorkflowInv
  BY WorkflowAssumption, WorkflowInit
<1>2. WorkflowInv /\ [Next]_vars => WorkflowInv'
  BY WorkflowAssumption, WorkflowStep
<1> QED
  BY <1>1, <1>2, PTL DEF Spec

(* The variables of the handlers keep their types.                         *)
THEOREM WorkflowTypeOK == Spec => []TypeOK
<1>1. WorkflowInv => TypeOK
  BY DEF WorkflowInv
<1> QED
  BY <1>1, WorkflowInvariant, PTL

(* An issued document has its CUFE and its XML file.                       *)
THEOREM SignedHaveXml == Spec => []SignedDocumentsHaveXml
<1>1. WorkflowInv => SignedDocumentsHaveXml
  BY DEF WorkflowInv, IssuedWereSigned, SigningHasXml, SignedDocumentsHaveXml
<1> QED
  BY <1>1, WorkflowInvariant, PTL

(* No XML is signed without lines.                                         *)
THEOREM SignedHaveLines == Spec => []SignedXmlHasLines
<1>1. WorkflowInv => SignedXmlHasLines
  BY DEF WorkflowInv
<1> QED
  BY <1>1, WorkflowInvariant, PTL

(* The row's status is the one its event log ends with.                    *)
THEOREM LogEndsAtStatus == Spec => []StatusIsLastEvent
<1>1. WorkflowInv => StatusIsLastEvent
  BY DEF WorkflowInv
<1> QED
  BY <1>1, WorkflowInvariant, PTL

(* Every event starts from a status that an earlier event brought about.   *)
THEOREM LogIsConnected == Spec => []EventsAreConnected
<1>1. WorkflowInv => EventsAreConnected
  BY DEF WorkflowInv
<1> QED
  BY <1>1, WorkflowInvariant, PTL

(* A note refers to an invoice that was signed.                            *)
THEOREM NotesReferToSigned == Spec => []NotesReferToSignedInvoices
<1>1. WorkflowInv => NotesReferToSignedInvoices
  BY DEF WorkflowInv
<1> QED
  BY <1>1, WorkflowInvariant, PTL

-----------------------------------------------------------------------------
(* The audit log *)

(* Who wrote a header, totals or lines had written before, or has just     *)
(* committed.                                                              *)
LEMMA NewWriters ==
  ASSUME WorkflowAssumption, TypeOK, RequestsHaveDocuments,
         NEW r \in Requests, Step(r), NEW q \in Requests, Wrote(q)'
  PROVE  Wrote(q) \/ (q = r /\ req'[r].pc = "committed")
<1> DEFINE Goal == Wrote(q) \/ (q = r /\ req'[r].pc = "committed")
<1>1. ASSUME NEW d \in Documents, NEW reference \in Documents \cup {None},
             InsertDocument(r, d, reference), req'[r].pc = "committed"
      PROVE  Goal
  <2>1. /\ row'[d].header = r
        /\ row'[d].totals = r
        /\ lines'[d] = {r}
    BY <1>1 DEF InsertDocument, NoRow, TypeOK
  <2>2. \A c \in Documents : c # d => row'[c] = row[c] /\ lines'[c] = lines[c]
    BY <1>1 DEF InsertDocument, TypeOK
  <2> QED
    BY <1>1, <2>1, <2>2 DEF Wrote
<1>2. CASE CreateInvoice(r)
  <2>1. PICK d \in Documents : InsertDocument(r, d, None)
    BY <1>2 DEF CreateInvoice, DocumentsOf
  <2>2. req'[r].pc = "committed"
    BY <1>2 DEF CreateInvoice, Idle, TypeOK
  <2> QED
    BY <1>1, <2>1, <2>2
<1>3. CASE \E type \in {"credit_note", "debit_note"} : CommitCreateNote(r, type)
  <2>1. PICK d \in Documents : InsertDocument(r, d, req[r].doc)
    BY <1>3 DEF CommitCreateNote, DocumentsOf
  <2>2. req'[r].pc = "committed" /\ req[r].doc \in Documents
    BY <1>3 DEF CommitCreateNote, Goto, TypeOK, Request, RequestsHaveDocuments,
                Working
  <2> QED
    BY <1>1, <2>1, <2>2
<1>4. CASE CommitUpdate(r)
  <2> DEFINE d == req[r].doc
  <2>1. d \in Documents /\ req[r] \in Request
    BY <1>4 DEF CommitUpdate, RequestsHaveDocuments, Working, TypeOK
  <2>2. req'[r].pc = "committed"
    BY <1>4, <2>1 DEF CommitUpdate, Goto, TypeOK, Request
  <2>3. \A c \in Documents : lines'[c] \subseteq lines[c] \cup {r}
    BY <1>4 DEF CommitUpdate, TypeOK
  <2>4. \A c \in Documents : row'[c].header \in {row[c].header, r}
    BY <1>4 DEF CommitUpdate, TypeOK, Row
  <2>5. \A c \in Documents : row'[c].totals \in {row[c].totals, r, None}
    BY <1>4 DEF CommitUpdate, TypeOK, Row
  <2>6. q # None
    BY DEF WorkflowAssumption
  <2> QED
    BY <2>2, <2>3, <2>4, <2>5, <2>6 DEF Wrote
<1>5. CASE CommitTransition(r)
  <2>1. \A c \in Documents : /\ row'[c].header = row[c].header
                             /\ row'[c].totals = row[c].totals
                             /\ lines'[c] = lines[c]
    BY <1>5 DEF CommitTransition, TypeOK, Row
  <2> QED
    BY <2>1 DEF Wrote
<1>6. CASE UNCHANGED <<row, lines>>
  BY <1>6 DEF Wrote
<1> QED
  BY <1>2, <1>3, <1>4, <1>5, <1>6
  DEF Step, BeginCreateNote, BeginUpdate, FlushHeader, ReadExistingLines,
      RefuseLines, BeginTransition, ReadLinesToSign, SaveXml, BeginQueue,
      PublishTask, CommitQueued, WriteAudit, Crash

(* A request that is accounted for stays so.                               *)
LEMMA AccountedStay ==
  ASSUME WorkflowAssumption, TypeOK, RequestsHaveDocuments,
         NEW r \in Requests, Step(r), NEW q \in Requests, Accounted(q)
  PROVE  Accounted(q)'
<1>1. audit \subseteq audit'
  BY DEF Step, CreateInvoice, InsertDocument, BeginCreateNote,
         CommitCreateNote, BeginUpdate, FlushHeader, ReadExistingLines,
         RefuseLines, CommitUpdate, BeginTransition, ReadLinesToSign, SaveXml,
         CommitTransition, BeginQueue, PublishTask, CommitQueued, WriteAudit,
         Crash
<1>2. CASE q # r
  BY <1>1, <1>2, RequestStep DEF Accounted
<1>3. CASE q \in audit
  BY <1>1, <1>3 DEF Accounted
<1>4. CASE q = r /\ req[r].pc = "crashed"
  <2>1. FALSE
    BY <1>4 DEF Step, CreateInvoice, BeginCreateNote, CommitCreateNote,
         BeginUpdate, FlushHeader, ReadExistingLines, RefuseLines, CommitUpdate,
         BeginTransition, ReadLinesToSign, SaveXml, CommitTransition,
         BeginQueue, PublishTask, CommitQueued, WriteAudit, Crash, Arrives,
         Working
  <2> QED
    BY <2>1
<1>5. CASE q = r /\ req[r].pc = "committed"
  <2>1. WriteAudit(r) \/ Crash(r)
    BY <1>5 DEF Step, CreateInvoice, BeginCreateNote, CommitCreateNote,
         BeginUpdate, FlushHeader, ReadExistingLines, RefuseLines, CommitUpdate,
         BeginTransition, ReadLinesToSign, SaveXml, CommitTransition,
         BeginQueue, PublishTask, CommitQueued, Arrives
  <2>2. CASE WriteAudit(r)
    BY <1>5, <2>2 DEF WriteAudit, Accounted
  <2>3. CASE Crash(r)
    BY <1>5, <2>3 DEF Crash, Finish, Idle, TypeOK, Accounted
  <2> QED
    BY <2>1, <2>2, <2>3
<1> QED
  BY <1>2, <1>3, <1>4, <1>5 DEF Accounted

(* Every writer of a document's header, totals or lines is in the audit    *)
(* log, is just about to be, or died before it could be.                   *)
THEOREM WritersAudited == Spec => []WritersAreAudited
<1>1. Init => WritersAreAudited
  BY WorkflowAssumption DEF Init, NoRow, WritersAreAudited, Wrote,
     WorkflowAssumption
<1>2. WorkflowInv /\ WritersAreAudited /\ [Next]_vars => WritersAreAudited'
  <2> SUFFICES ASSUME WorkflowInv, WritersAreAudited, [Next]_vars,
                      NEW q \in Requests, Wrote(q)'
               PROVE  Accounted(q)'
    BY DEF WritersAreAudited
  <2>1. CASE Next
    <3>1. PICK r \in Requests : Step(r)
      BY <2>1, NextIsStep
    <3>2. Wrote(q) \/ (q = r /\ req'[r].pc = "committed")
      BY <3>1, WorkflowAssumption, NewWriters DEF WorkflowInv
    <3>3. CASE Wrote(q)
      BY <3>1, <3>3, WorkflowAssumption, AccountedStay
      DEF WorkflowInv, WritersAreAudited
    <3>4. CASE q = r /\ req'[r].pc = "committed"
      BY <3>4 DEF Accounted
    <3> QED
      BY <3>2, <3>3, <3>4
  <2>2. CASE UNCHANGED vars
    BY <2>2 DEF vars, WritersAreAudited, Wrote, Accounted
  <2> QED
    BY <2>1, <2>2
<1> QED
  BY <1>1, <1>2, WorkflowInvariant, PTL DEF Spec

(* Every entry of a timeline has a request of its own to account for it.   *)
EntriesAreAccounted ==
  /\ \A r \in audit : req[r].pc \in Finished
  /\ IsFiniteSet(TimelineEntries)
  /\ IsFiniteSet({r \in Requests : Accounted(r)})
  /\ Cardinality(TimelineEntries)
       <= Cardinality({r \in Requests : Accounted(r)})

(* An entry of a timeline is a document and a position.                    *)
LEMMA EntryPositions ==
  ASSUME TypeOK
  PROVE  TimelineEntries =
           {e \in Documents \X Nat : e[2] \in 1 .. Len(events[e[1]])}
<1>1. \A d \in Documents : /\ DOMAIN events[d] = 1 .. Len(events[d])
                           /\ Len(events[d]) \in Nat
  BY DEF TypeOK
<1> QED
  BY <1>1 DEF TimelineEntries

(* A request that is in the audit log does nothing any more.               *)
LEMMA AuditedRest ==
  ASSUME WorkflowAssumption, TypeOK, RequestsHaveDocuments,
         \A q \in audit : req[q].pc \in Finished,
         NEW r \in Requests, Step(r)
  PROVE  /\ r \notin audit
         /\ req[r].pc # "crashed"
         /\ \A q \in audit' : req'[q].pc \in Finished
         /\ \A q \in Requests : q # r => (Accounted(q)' <=> Accounted(q))
<1>1. req[r].pc \in Working \cup {"idle"}
  BY DEF Step, CreateInvoice, BeginCreateNote, CommitCreateNote, BeginUpdate,
         FlushHeader, ReadExistingLines, RefuseLines, CommitUpdate,
         BeginTransition, ReadLinesToSign, SaveXml, CommitTransition,
         BeginQueue, PublishTask, CommitQueued, WriteAudit, Crash, Arrives,
         Working
<1>2. r \notin audit /\ req[r].pc # "crashed"
  BY <1>1 DEF Working, Finished
<1>3. \A q \in Requests : q # r => req'[q] = req[q]
  BY RequestStep
<1>4. \/ audit' = audit
      \/ audit' = audit \cup {r} /\ Finish(r, "served")
  BY DEF Step, CreateInvoice, InsertDocument, BeginCreateNote,
         CommitCreateNote, BeginUpdate, FlushHeader, ReadExistingLines,
         RefuseLines, CommitUpdate, BeginTransition, ReadLinesToSign, SaveXml,
         CommitTransition, BeginQueue, PublishTask, CommitQueued, WriteAudit,
         Crash
<1>5. Finish(r, "served") => req'[r].pc \in Finished
  BY FinishType DEF Finished
<1>6. audit \subseteq Requests
  BY DEF TypeOK
<1> QED
  BY <1>2, <1>3, <1>4, <1>5, <1>6 DEF Accounted

(* A step that adds an entry is a commit of a request that had none.       *)
LEMMA EntryStep ==
  ASSUME WorkflowAssumption, TypeOK, RequestsHaveDocuments,
         NEW r \in Requests, Step(r), events' # events
  PROVE  req[r].pc # "committed" /\ req'[r].pc = "committed"
<1>1. req[r] \in Request
  BY DEF TypeOK
<1>2. CASE CreateInvoice(r)
  BY <1>2 DEF CreateInvoice, Arrives, Idle, TypeOK
<1>3. CASE \E type \in {"credit_note", "debit_note"} : CommitCreateNote(r, type)
  BY <1>1, <1>3 DEF CommitCreateNote, Goto, TypeOK, Request
<1>4. CASE CommitTransition(r)
  BY <1>1, <1>4 DEF CommitTransition, Goto, TypeOK, Request
<1>5. CASE CommitQueued(r)
  BY <1>1, <1>5 DEF CommitQueued, Goto, TypeOK, Request
<1> QED
  BY <1>2, <1>3, <1>4, <1>5
  DEF Step, BeginCreateNote, BeginUpdate, FlushHeader, ReadExistingLines,
      RefuseLines, CommitUpdate, BeginTransition, ReadLinesToSign, SaveXml,
      BeginQueue, PublishTask, WriteAudit, Crash

(* One entry more, one request more to account for it.                     *)
LEMMA EntriesAreAccountedStep ==
  ASSUME WorkflowAssumption, WorkflowInv, EntriesAreAccounted,
         NEW r \in Requests, Step(r)
  PROVE  EntriesAreAccounted'
<1> DEFINE A == {q \in Requests : Accounted(q)}
           B == {q \in Requests : Accounted(q)'}
<1>1. TypeOK /\ RequestsHaveDocuments /\ TypeOK'
  BY TypeStep DEF WorkflowInv
<1>2. /\ r \notin audit
      /\ req[r].pc # "crashed"
      /\ \A q \in audit' : req'[q].pc \in Finished
      /\ \A q \in Requests : q # r => (Accounted(q)' <=> Accounted(q))
      /\ \A q \in Requests : Accounted(q) => Accounted(q)'
  BY <1>1, AuditedRest, AccountedStay DEF EntriesAreAccounted
<1>3. B = A \/ (r \notin A /\ B = A \cup {r})
  BY <1>2
<1>4. IsFiniteSet(A) /\ Cardinality(A) \in Nat
  BY FS_CardinalityType DEF EntriesAreAccounted
<1>5. /\ IsFiniteSet(B)
      /\ Cardinality(B) \in Nat
      /\ Cardinality(B) >= Cardinality(A)
      /\ B # A => Cardinality(B) = Cardinality(A) + 1
  <2> HIDE DEF A, B
  <2>1. CASE B = A
    BY <1>4, <2>1
  <2>2. CASE r \notin A /\ B = A \cup {r}
    <3>1. IsFiniteSet(B) /\ Cardinality(B) = Cardinality(A) + 1
      BY <1>4, <2>2, FS_AddElement
    <3> QED
      BY <1>4, <3>1
  <2> QED
    BY <1>3, <2>1, <2>2
<1>6. /\ IsFiniteSet(TimelineEntries)
      /\ Cardinality(TimelineEntries) \in Nat
      /\ Cardinality(TimelineEntries) <= Cardinality(A)
  BY FS_CardinalityType DEF EntriesAreAccounted
<1>7. /\ IsFiniteSet(TimelineEntries')
      /\ Cardinality(TimelineEntries') <= Cardinality(B)
  <2>1. CASE events' = events
    <3>1. TimelineEntries' = TimelineEntries
      BY <2>1 DEF TimelineEntries
    <3> HIDE DEF A, B
    <3> QED
      BY <1>4, <1>5, <1>6, <3>1
  <2>2. CASE events' # events
    <3>1. PICK d \in Documents, type \in DocumentEventType,
               from \in Status, to \in Status :
            RecordEvent(d, type, from, to)
      BY <1>1, <2>2, DocumentStep
    <3>2. /\ Len(events[d]) \in Nat
          /\ Len(events'[d]) = Len(events[d]) + 1
          /\ \A c \in Documents : c # d => events'[c] = events[c]
      BY <1>1, <3>1, RecordEventType
    <3>3. TimelineEntries' =
            {e \in Documents \X Nat : e[2] \in 1 .. Len(events'[e[1]])}
      <4>1. \A c \in Documents : /\ DOMAIN events'[c] = 1 .. Len(events'[c])
                                 /\ Len(events'[c]) \in Nat
        BY <1>1 DEF TypeOK
      <4> QED
        BY <4>1 DEF TimelineEntries
    <3>4. TimelineEntries =
            {e \in Documents \X Nat : e[2] \in 1 .. Len(events[e[1]])}
      BY <1>1, EntryPositions
    <3>5. TimelineEntries' =
            TimelineEntries \cup {<<d, Len(events[d]) + 1>>}
      <4>1. ASSUME NEW c \in Documents, NEW n \in Nat
            PROVE  n \in 1 .. Len(events'[c]) <=>
                     \/ n \in 1 .. Len(events[c])
                     \/ c = d /\ n = Len(events[d]) + 1
        BY <3>2
      <4>2. ASSUME NEW e \in Documents \X Nat
            PROVE  e[2] \in 1 .. Len(events'[e[1]]) <=>
                     \/ e[2] \in 1 .. Len(events[e[1]])
                     \/ e = <<d, Len(events[d]) + 1>>
        <5>1. PICK c \in Documents, n \in Nat : e = <<c, n>>
          OBVIOUS
        <5>2. e[1] = c /\ e[2] = n
          BY <5>1
        <5>3. e = <<d, Len(events[d]) + 1>> <=>
                c = d /\ n = Len(events[d]) + 1
          BY <5>1
        <5> QED
          BY <4>1, <5>2, <5>3
      <4> DEFINE P   == Documents \X Nat
                 new == <<d, Len(events[d]) + 1>>
      <4>3. new \in P
        BY <3>2
      <4>4. TimelineEntries' \subseteq P /\ TimelineEntries \subseteq P
        BY <3>3, <3>4
      <4>5. \A e \in P : \/ e \in TimelineEntries' /\ e \in TimelineEntries
                         \/ e \in TimelineEntries' /\ e = new
                         \/ e \notin TimelineEntries' /\ e # new
                            /\ e \notin TimelineEntries
        BY <3>3, <3>4, <4>2
      <4> HIDE DEF P, new
      <4>6. TimelineEntries' \subseteq TimelineEntries \cup {new}
        BY <4>4, <4>5
      <4>7. TimelineEntries \cup {new} \subseteq TimelineEntries'
        BY <4>3, <4>4, <4>5
      <4> QED
        BY <4>6, <4>7 DEF new
    <3>6. /\ IsFiniteSet(TimelineEntries')
          /\ Cardinality(TimelineEntries') <= Cardinality(TimelineEntries) + 1
      <4>1. PICK new : TimelineEntries' = TimelineEntries \cup {new}
        BY <3>5
      <4>2. /\ IsFiniteSet(TimelineEntries \cup {new})
            /\ Cardinality(TimelineEntries \cup {new}) =
                 IF new \in TimelineEntries THEN Cardinality(TimelineEntries)
                 ELSE Cardinality(TimelineEntries) + 1
        BY <1>6, FS_AddElement
      <4> HIDE DEF A
      <4> QED
        BY <1>6, <4>1, <4>2
    <3>7. r \notin A /\ r \in B
      BY <1>1, <1>2, <2>2, EntryStep DEF Accounted
    <3>8. Cardinality(TimelineEntries') \in Nat
      BY <3>6, FS_CardinalityType
    <3> HIDE DEF A, B
    <3> QED
      BY <1>4, <1>5, <1>6, <3>6, <3>7, <3>8
  <2> QED
    BY <2>1, <2>2
<1>8. B = {q \in Requests : Accounted(q)}'
  OBVIOUS
<1> HIDE DEF A, B
<1> QED
  BY <1>2, <1>5, <1>7, <1>8 DEF EntriesAreAccounted

(* Neither what a document says nor an entry of its timeline came about    *)
(* behind the audit log's back, wherever requests interleave and die.      *)
THEOREM ChangesAudited == Spec => []ChangesAreAudited
<1>1. Init => EntriesAreAccounted
  <2> SUFFICES ASSUME Init PROVE EntriesAreAccounted
    OBVIOUS
  <2>1. TypeOK
    BY WorkflowAssumption, WorkflowInit DEF WorkflowInv
  <2>2. /\ audit = {}
        /\ \A d \in Documents : Len(events[d]) = 0
        /\ \A r \in Requests : req[r].pc = "idle"
    BY DEF Init, Idle
  <2>3. TimelineEntries = {}
    BY <2>1, <2>2, EntryPositions
  <2>4. {r \in Requests : Accounted(r)} = {}
    BY <2>2 DEF Accounted
  <2> QED
    BY <2>2, <2>3, <2>4, FS_EmptySet DEF EntriesAreAccounted
<1>2. WorkflowInv /\ EntriesAreAccounted /\ [Next]_vars => EntriesAreAccounted'
  <2> SUFFICES ASSUME WorkflowInv, EntriesAreAccounted, [Next]_vars
               PROVE  EntriesAreAccounted'
    OBVIOUS
  <2>1. CASE Next
    BY <2>1, WorkflowAssumption, NextIsStep, EntriesAreAccountedStep
  <2>2. CASE UNCHANGED vars
    BY <2>2 DEF vars, EntriesAreAccounted, TimelineEntries, Accounted
  <2> QED
    BY <2>1, <2>2
<1>3. WritersAreAudited /\ EntriesAreAccounted => ChangesAreAudited
  BY DEF EntriesAreAccounted, ChangesAreAudited
<1> QED
  BY <1>1, <1>2, <1>3, WorkflowInvariant, WritersAudited, PTL DEF Spec

-----------------------------------------------------------------------------
(***************************************************************************)
(* Requests that do not overlap: the lines are those of the totals, the    *)
(* XML file is the one that was signed, and the handlers implement the     *)
(* atomic DocumentLifecycle, step by step.                                 *)
(***************************************************************************)
(* The inductive invariant of requests that do not overlap *)

OneAtATime ==
  \A q, r \in Requests :
    req[q].pc \in Working /\ req[r].pc \in Working => q = r

(* What a request has read is what the database holds: nobody writes       *)
(* between its read and its commit.                                        *)
ReadIsCurrent(r) ==
  LET d == req[r].doc IN
  /\ req[r].status = row[d].status
  /\ req[r].header = row[d].header
  /\ req[r].totals = row[d].totals
  /\ req[r].pc = "read" => req[r].lines = {}
  /\ req[r].pc \in {"collected", "saved"} => req[r].lines = lines[d]
  /\ req[r].pc = "saved" => xmlFile[d] = Built(r)

(* What the checks at its beginning established still holds of it.         *)
PassedItsChecks(r) ==
  /\ req[r].op = "sign" => req[r].status = "draft"
  /\ req[r].op = "update" =>
       DocType[req[r].doc] = "invoice" /\ req[r].status \in EditableStatuses
  /\ req[r].op = "create" => DocType[req[r].doc] = "invoice"
  /\ req[r].pc = "saved" => req[r].op = "sign"

RequestsAreCurrent ==
  \A r \in Requests :
    req[r].pc \in Deciding => ReadIsCurrent(r) /\ PassedItsChecks(r)

DraftsAreUnsigned ==
  \A d \in Documents :
    row[d].status \in {"absent", "draft"} => row[d].signature = None

(* What was signed is what the document says ever after.                   *)
SignedContentIsKept ==
  \A d \in Documents :
    row[d].signature # None => row[d].signature = ContentOf(d)

SerialInv ==
  /\ OneAtATime
  /\ RequestsAreCurrent
  /\ DraftsAreUnsigned
  /\ LinesMatchTotals
  /\ CufeMatchesXml
  /\ SignedContentIsKept

-----------------------------------------------------------------------------
(* The steps again, by what they do to the contents of documents *)

(* A request ends, or commits something that is not content.               *)
Ends(r) ==
  /\ req'[r].pc \notin Deciding
  /\ UNCHANGED <<row, lines, xmlFile>>

(* A request arrives, passes its checks and reads a row.                   *)
Reads(r) ==
  /\ req'[r].pc = "read"
  /\ req'[r].doc \in Documents
  /\ req'[r].status = row[req'[r].doc].status
  /\ req'[r].header = row[req'[r].doc].header
  /\ req'[r].totals = row[req'[r].doc].totals
  /\ req'[r].lines = {}
  /\ PassedItsChecks(r)'
  /\ UNCHANGED <<row, lines, xmlFile>>

(* A request goes on, perhaps after reading the lines.                     *)
GoesOn(r) ==
  LET d == req[r].doc IN
  /\ req[r].pc \in Deciding
  /\ \/ /\ req'[r].pc \in {"flushed", "published"}
        /\ req'[r].lines = req[r].lines
     \/ req'[r].pc = "collected" /\ req'[r].lines = lines[d]
  /\ d \in Documents
  /\ req'[r].doc = d
  /\ req'[r].op = req[r].op
  /\ req'[r].status = req[r].status
  /\ req'[r].header = req[r].header
  /\ req'[r].totals = req[r].totals
  /\ UNCHANGED <<row, lines, xmlFile>>

(* A signing request replaces the XML file.                                *)
Saves(r) ==
  LET d == req[r].doc IN
  /\ req[r].pc = "collected"
  /\ req[r].op = "sign"
  /\ d \in Documents
  /\ xmlFile'[d] = Built(r)
  /\ \A c \in Documents : c # d => xmlFile'[c] = xmlFile[c]
  /\ req'[r] = [req[r] EXCEPT !.pc = "saved"]
  /\ UNCHANGED <<row, lines>>

(* A request inserts a document, a note after it found an invoice issued.  *)
Inserts(r, d) ==
  /\ row[d].status = "absent"
  /\ \/ DocType[d] = "invoice"
     \/ req[r].pc = "read" /\ req[r].op = "create"
  /\ row'[d].status = "draft"
  /\ row'[d].header = r
  /\ row'[d].totals = r
  /\ row'[d].signature = None
  /\ lines'[d] = {r}
  /\ \A c \in Documents : c # d => row'[c] = row[c] /\ lines'[c] = lines[c]
  /\ req'[r].pc = "committed"
  /\ UNCHANGED xmlFile

(* A request that read a draft replaces its lines or not.                  *)
Edits(r) ==
  LET d == req[r].doc IN
  /\ req[r].pc \in {"read", "collected"}
  /\ req[r].op = "update"
  /\ d \in Documents
  /\ row'[d].status = row[d].status
  /\ row'[d].signature = row[d].signature
  /\ \/ row'[d].totals = row[d].totals /\ lines'[d] = lines[d]
     \/ \E t \in {r, None} :
          row'[d].totals = t /\ lines'[d] = IF t = None THEN {} ELSE {t}
  /\ \A c \in Documents : c # d => row'[c] = row[c] /\ lines'[c] = lines[c]
  /\ req'[r].pc = "committed"
  /\ UNCHANGED xmlFile

(* A request moves its document along the transition table.                *)
Moves(r) ==
  LET d == req[r].doc IN
  /\ req[r].op \in TransitionAction
  /\ req[r].pc = IF req[r].op = "sign" THEN "saved" ELSE "read"
  /\ d \in Documents
  /\ Transition(req[r].status, req[r].op, row'[d].status)
  /\ row'[d].header = row[d].header
  /\ row'[d].totals = row[d].totals
  /\ row'[d].signature = IF req[r].op = "sign" THEN Built(r)
                         ELSE row[d].signature
  /\ \A c \in Documents : c # d => row'[c] = row[c]
  /\ req'[r].pc = "committed"
  /\ UNCHANGED <<lines, xmlFile>>

(* A request that loads a row holds it as it is.                           *)
LEMMA LoadReads ==
  ASSUME WorkflowAssumption, TypeOK, NEW r \in Requests,
         NEW op \in Operations, NEW type \in DocumentType,
         NEW d \in Documents, NEW edit \in Edit, Load(r, op, type, d, edit),
         op = "sign" => row[d].status = "draft",
         op = "update" =>
           DocType[d] = "invoice" /\ row[d].status \in EditableStatuses,
         op = "create" => DocType[d] = "invoice",
         UNCHANGED <<row, lines, xmlFile>>
  PROVE  Reads(r)
<1>1. req'[r] = [pc |-> "read", op |-> op, type |-> type, doc |-> d,
                 edit |-> edit, status |-> row[d].status,
                 header |-> row[d].header, totals |-> row[d].totals,
                 lines |-> {}]
  BY DEF Load, TypeOK
<1>2. /\ req'[r].pc = "read" /\ req'[r].doc = d /\ req'[r].op = op
      /\ req'[r].status = row[d].status
      /\ req'[r].header = row[d].header
      /\ req'[r].totals = row[d].totals
      /\ req'[r].lines = {}
  BY <1>1
<1>3. PassedItsChecks(r)'
  BY <1>2 DEF PassedItsChecks
<1> QED
  BY <1>2, <1>3 DEF Reads

(* A request whose transaction ends has nothing left to decide.            *)
LEMMA FinishEnds ==
  ASSUME TypeOK, NEW r \in Requests, NEW outcome \in Finished,
         Finish(r, outcome), UNCHANGED <<row, lines, xmlFile>>
  PROVE  Ends(r)
<1>1. Finished \cap Deciding = {}
  BY DEF Finished, Deciding, Working
<1> QED
  BY <1>1, FinishType DEF Ends

(* A new document is what its creator wrote.                               *)
LEMMA InsertInserts ==
  ASSUME TypeOK, NEW r \in Requests, NEW d \in Documents, NEW reference,
         InsertDocument(r, d, reference), req'[r].pc = "committed",
         DocType[d] = "invoice" \/ (req[r].pc = "read" /\ req[r].op = "create")
  PROVE  Inserts(r, d)
<1> DEFINE new == [NoRow EXCEPT !.status = "draft", !.header = r,
                               !.totals = r, !.reference = reference]
<1>1. new.status = "draft" /\ new.header = r /\ new.totals = r
      /\ new.signature = None
  BY DEF NoRow
<1>2. /\ row' = [row EXCEPT ![d] = new]
      /\ lines' = [lines EXCEPT ![d] = {r}]
      /\ row[d].status = "absent"
      /\ UNCHANGED xmlFile
  BY DEF InsertDocument
<1> HIDE DEF new
<1>3. /\ row'[d] = new
      /\ lines'[d] = {r}
      /\ \A c \in Documents : c # d => row'[c] = row[c] /\ lines'[c] = lines[c]
  BY <1>2 DEF TypeOK
<1> QED
  BY <1>1, <1>2, <1>3 DEF Inserts

(* An update of what is still as it was read replaces the lines it knows.  *)
LEMMA UpdateEdits ==
  ASSUME WorkflowAssumption, TypeOK, RequestsHaveDocuments,
         RequestsAreCurrent, NEW r \in Requests, CommitUpdate(r)
  PROVE  Edits(r)
<1> DEFINE d == req[r].doc
           e == req[r].edit
           newTotals == IF e.lines = "replace" THEN r
                        ELSE IF e.lines = "clear" THEN None ELSE req[r].totals
           newLines == IF e.lines = "replace" THEN {r} ELSE {}
           setsTotals == newTotals # req[r].totals
<1>1. /\ req[r].op = "update"
      /\ req[r].pc = IF e.lines = "keep" THEN "read" ELSE "collected"
      /\ row' = [row EXCEPT ![d].header = IF e.header THEN r ELSE @,
                            ![d].totals = IF setsTotals THEN newTotals ELSE @]
      /\ lines' = [lines EXCEPT ![d] = (@ \ req[r].lines) \cup newLines]
      /\ UNCHANGED xmlFile
      /\ Goto(r, "committed")
  BY DEF CommitUpdate
<1>2. /\ d \in Documents
      /\ req[r] \in Request
      /\ req[r].pc \in Deciding
      /\ req[r].pc \in {"read", "collected"}
  BY <1>1 DEF RequestsHaveDocuments, Working, Deciding, TypeOK
<1>3. e.lines \in {"keep", "replace", "clear"}
  BY <1>2 DEF Request, Edit
<1>4. /\ req[r].totals = row[d].totals
      /\ req[r].lines = IF e.lines = "keep" THEN {} ELSE lines[d]
  BY <1>1, <1>2 DEF RequestsAreCurrent, ReadIsCurrent
<1>5. req'[r].pc = "committed"
  BY <1>1, <1>2 DEF Goto, TypeOK, Request
<1>6. lines'[d] = (lines[d] \ req[r].lines) \cup newLines
  BY <1>1, <1>2 DEF TypeOK
<1>7. \A c \in Documents : c # d => lines'[c] = lines[c]
  BY <1>1 DEF TypeOK
<1>8. \A c \in Documents : c # d => row'[c] = row[c]
  BY <1>1 DEF TypeOK
<1>9. /\ row'[d].status = row[d].status
      /\ row'[d].signature = row[d].signature
  BY <1>2, UpdateEffect
<1>10. row'[d].totals = IF setsTotals THEN newTotals ELSE row[d].totals
  BY <1>1, <1>2 DEF TypeOK, Row
<1>11. row'[d].totals = newTotals
  BY <1>4, <1>10
<1>12. \/ row'[d].totals = row[d].totals /\ lines'[d] = lines[d]
       \/ \E t \in {r, None} :
            row'[d].totals = t /\ lines'[d] = IF t = None THEN {} ELSE {t}
  <2>1. CASE e.lines = "keep"
    BY <1>4, <1>6, <1>11, <2>1
  <2>2. CASE e.lines = "replace"
    <3>1. lines'[d] = {r} /\ row'[d].totals = r
      BY <1>4, <1>6, <1>11, <2>2
    <3>2. r # None
      BY DEF WorkflowAssumption
    <3> QED
      BY <3>1, <3>2
  <2>3. CASE e.lines = "clear"
    <3>1. lines'[d] = {} /\ row'[d].totals = None
      BY <1>4, <1>6, <1>11, <2>3
    <3> QED
      BY <3>1
  <2> QED
    BY <1>3, <2>1, <2>2, <2>3
<1> QED
  BY <1>1, <1>2, <1>5, <1>7, <1>8, <1>9, <1>12 DEF Edits

(* A transition writes the status and, to sign, the signature.             *)
LEMMA TransitionMoves ==
  ASSUME WorkflowAssumption, TypeOK, RequestsHaveDocuments,
         NEW r \in Requests, CommitTransition(r)
  PROVE  Moves(r)
<1> DEFINE d == req[r].doc
<1>1. /\ d \in Documents /\ req[r] \in Request
      /\ req[r].op \in TransitionAction
      /\ req[r].pc = IF req[r].op = "sign" THEN "saved" ELSE "read"
      /\ UNCHANGED <<lines, xmlFile>>
      /\ Goto(r, "committed")
  BY DEF CommitTransition, RequestsHaveDocuments, Working, TypeOK
<1>2. /\ Transition(req[r].status, req[r].op, row'[d].status)
      /\ row'[d].signature = IF req[r].op = "sign" THEN Built(r)
                             ELSE row[d].signature
      /\ \A c \in Documents : c # d => row'[c] = row[c]
  BY TransitionEffect
<1>3. /\ row'[d].header = row[d].header
      /\ row'[d].totals = row[d].totals
  BY <1>1 DEF CommitTransition, TypeOK, Row
<1>4. req'[r].pc = "committed"
  BY <1>1 DEF Goto, TypeOK, Request
<1> QED
  BY <1>1, <1>2, <1>3, <1>4 DEF Moves

(* A transition that signs may begin from a draft only.                    *)
LEMMA SignFromDraft ==
  ASSUME NEW status, Allowed(status, "sign")
  PROVE  status = "draft"
BY DEF Allowed, Transition, Transitions

(* Every step is one of these.                                             *)
LEMMA ContentStep ==
  ASSUME WorkflowAssumption, TypeOK, RequestsHaveDocuments,
         RequestsAreCurrent, NEW r \in Requests, Step(r)
  PROVE  \/ Ends(r) \/ Reads(r) \/ GoesOn(r) \/ Saves(r)
         \/ \E d \in Documents : Inserts(r, d)
         \/ Edits(r) \/ Moves(r)
<1> DEFINE Goal == \/ Ends(r) \/ Reads(r) \/ GoesOn(r) \/ Saves(r)
                   \/ \E d \in Documents : Inserts(r, d)
                   \/ Edits(r) \/ Moves(r)
<1>1. /\ \A d \in Documents : DocType[d] \in DocumentType
      /\ NoEdit \in Edit
      /\ {"create", "update", "queue"} \subseteq Operations
      /\ TransitionAction \subseteq Operations
      /\ {"refused", "served", "crashed", "failed"} \subseteq Finished
      /\ req[r] \in Request
  BY DEF WorkflowAssumption, NoEdit, Edit, Operations, Finished, TypeOK
<1>2. CASE CreateInvoice(r)
  <2>1. PICK d \in Documents :
          /\ DocType[d] = "invoice"
          /\ InsertDocument(r, d, None)
    BY <1>2 DEF CreateInvoice, DocumentsOf
  <2>2. req'[r].pc = "committed"
    BY <1>2 DEF CreateInvoice, Idle, TypeOK
  <2> QED
    BY <2>1, <2>2, InsertInserts
<1>3. ASSUME NEW type \in {"credit_note", "debit_note"},
             BeginCreateNote(r, type)
      PROVE  Goal
  <2>1. PICK i \in Documents :
          /\ DocType[i] = "invoice"
          /\ \/ Load(r, "create", type, i, NoEdit)
             \/ Finish(r, "refused")
          /\ UNCHANGED <<row, lines, xmlFile>>
    BY <1>3 DEF BeginCreateNote, DocumentsOf
  <2>2. type \in DocumentType
    BY <1>3 DEF DocumentType
  <2> QED
    BY <1>1, <2>1, <2>2, LoadReads, FinishEnds
<1>4. ASSUME NEW type \in {"credit_note", "debit_note"},
             CommitCreateNote(r, type)
      PROVE  Goal
  <2>1. PICK n \in Documents : InsertDocument(r, n, req[r].doc)
    BY <1>4 DEF CommitCreateNote, DocumentsOf
  <2>2. req'[r].pc = "committed" /\ req[r].pc = "read" /\ req[r].op = "create"
    BY <1>1, <1>4 DEF CommitCreateNote, Goto, TypeOK, Request
  <2> QED
    BY <2>1, <2>2, InsertInserts
<1>5. ASSUME NEW d \in Documents, NEW edit \in Edit,
             DocType[d] = "invoice", BeginUpdate(r, d, edit)
      PROVE  Goal
  <2>1. \/ /\ row[d].status \in EditableStatuses
           /\ Load(r, "update", "invoice", d, edit)
        \/ Finish(r, "refused")
    BY <1>5 DEF BeginUpdate
  <2>2. UNCHANGED <<row, lines, xmlFile>> /\ "invoice" \in DocumentType
    BY <1>5 DEF BeginUpdate, DocumentType
  <2> QED
    BY <1>1, <1>5, <2>1, <2>2, LoadReads, FinishEnds
<1>6. ASSUME NEW d \in Documents, NEW a \in TransitionAction,
             BeginTransition(r, d, a)
      PROVE  Goal
  <2>1. \/ Allowed(row[d].status, a) /\ Load(r, a, DocType[d], d, NoEdit)
        \/ Finish(r, "refused")
    BY <1>6 DEF BeginTransition
  <2>2. UNCHANGED <<row, lines, xmlFile>>
    BY <1>6 DEF BeginTransition
  <2>3. a # "create" /\ a # "update"
    BY DEF TransitionAction
  <2>4. Allowed(row[d].status, a) /\ a = "sign" => row[d].status = "draft"
    BY SignFromDraft
  <2> QED
    BY <1>1, <2>1, <2>2, <2>3, <2>4, LoadReads, FinishEnds
<1>7. ASSUME NEW d \in Documents, BeginQueue(r, d)
      PROVE  Goal
  <2>1. \/ Load(r, "queue", DocType[d], d, NoEdit)
        \/ Finish(r, "refused")
    BY <1>7 DEF BeginQueue
  <2>2. UNCHANGED <<row, lines, xmlFile>>
    BY <1>7 DEF BeginQueue
  <2> QED
    BY <1>1, <2>1, <2>2, LoadReads, FinishEnds
<1>8. ASSUME req[r].pc \in Deciding, NEW pc \in {"flushed", "published"},
             Goto(r, pc), UNCHANGED <<row, lines, xmlFile>>
      PROVE  GoesOn(r)
  <2>1. req'[r] = [req[r] EXCEPT !.pc = pc]
    BY <1>8, GotoType DEF Working
  <2>2. req[r].doc \in Documents
    BY <1>8 DEF RequestsHaveDocuments, Deciding
  <2> QED
    BY <1>1, <1>8, <2>1, <2>2 DEF GoesOn, Request
<1>9. ASSUME req[r].pc \in Deciding,
             req' = [req EXCEPT ![r].pc = "collected",
                                ![r].lines = lines[req[r].doc]],
             UNCHANGED <<row, lines, xmlFile>>
      PROVE  GoesOn(r)
  <2>1. req[r].doc \in Documents
    BY <1>9 DEF RequestsHaveDocuments, Deciding
  <2>2. lines[req[r].doc] \in SUBSET Requests
    BY <2>1 DEF TypeOK
  <2>3. req'[r] = [req[r] EXCEPT !.pc = "collected",
                                 !.lines = lines[req[r].doc]]
    BY <1>9, <2>2, CollectType
  <2>4. /\ req'[r].pc = "collected"
        /\ req'[r].lines = lines[req[r].doc]
        /\ req'[r].doc = req[r].doc
        /\ req'[r].op = req[r].op
        /\ req'[r].status = req[r].status
        /\ req'[r].header = req[r].header
        /\ req'[r].totals = req[r].totals
    BY <1>1, <2>3 DEF Request
  <2> QED
    BY <1>9, <2>1, <2>4 DEF GoesOn
<1>10. CASE FlushHeader(r)
  BY <1>8, <1>10 DEF FlushHeader, Deciding, Working
<1>11. CASE ReadExistingLines(r)
  BY <1>9, <1>11 DEF ReadExistingLines, Deciding, Working
<1>12. CASE ReadLinesToSign(r)
  <2>1. req[r].pc \in Deciding /\ UNCHANGED <<row, lines, xmlFile>>
    BY <1>12 DEF ReadLinesToSign, Deciding, Working
  <2>2. \/ Finish(r, "refused")
        \/ req' = [req EXCEPT ![r].pc = "collected",
                              ![r].lines = lines[req[r].doc]]
    BY <1>12 DEF ReadLinesToSign
  <2> QED
    BY <1>1, <1>9, <2>1, <2>2, FinishEnds
<1>13. CASE SaveXml(r)
  <2>1. /\ req[r].pc = "collected" /\ req[r].op = "sign"
        /\ Goto(r, "saved")
        /\ xmlFile' = [xmlFile EXCEPT ![req[r].doc] = Built(r)]
        /\ UNCHANGED <<row, lines>>
    BY <1>13 DEF SaveXml
  <2>2. req[r].doc \in Documents
    BY <2>1 DEF RequestsHaveDocuments, Working
  <2>3. req'[r] = [req[r] EXCEPT !.pc = "saved"]
    BY <2>1, GotoType DEF Working
  <2>4. /\ xmlFile'[req[r].doc] = Built(r)
        /\ \A c \in Documents : c # req[r].doc => xmlFile'[c] = xmlFile[c]
    BY <2>1, <2>2 DEF TypeOK
  <2> QED
    BY <2>1, <2>2, <2>3, <2>4 DEF Saves
<1>14. CASE PublishTask(r)
  <2>1. req[r].pc \in Deciding /\ UNCHANGED <<row, lines, xmlFile>>
    BY <1>14 DEF PublishTask, Deciding, Working
  <2>2. Goto(r, "published") \/ Finish(r, "failed")
    BY <1>14 DEF PublishTask
  <2> QED
    BY <1>1, <1>8, <2>1, <2>2, FinishEnds
<1>15. CASE CommitQueued(r)
  <2>1. Goto(r, "committed") /\ UNCHANGED <<row, lines, xmlFile>>
    BY <1>15 DEF CommitQueued
  <2>2. req'[r].pc = "committed"
    BY <1>1, <2>1 DEF Goto, TypeOK, Request
  <2> QED
    BY <2>1, <2>2 DEF Ends, Deciding
<1>16. CASE RefuseLines(r) \/ WriteAudit(r) \/ Crash(r)
  <2>1. UNCHANGED <<row, lines, xmlFile>>
    BY <1>16 DEF RefuseLines, WriteAudit, Crash
  <2>2. \E outcome \in {"refused", "served", "crashed"} : Finish(r, outcome)
    BY <1>16 DEF RefuseLines, WriteAudit, Crash
  <2> QED
    BY <1>1, <2>1, <2>2, FinishEnds
<1>17. CASE CommitUpdate(r) \/ CommitTransition(r)
  BY <1>17, UpdateEdits, TransitionMoves
<1> QED
  BY <1>2, <1>3, <1>4, <1>5, <1>6, <1>7, <1>10, <1>11, <1>12, <1>13, <1>14,
     <1>15, <1>16, <1>17 DEF Step

(* Nobody begins while another works, and only who works goes on.          *)
LEMMA OthersRest ==
  ASSUME MaxInFlight = 1, OneAtATime, NEW r \in Requests, Step(r),
         NEW q \in Requests, q # r
  PROVE  req[q].pc \notin Working
<1>1. CASE req[r].pc \in Working
  BY <1>1 DEF OneAtATime
<1>2. CASE \E op : Arrives(r, op)
  <2>1. IsFiniteSet(InFlight)
    <3>1. CASE InFlight = {}
      BY <3>1, FS_EmptySet
    <3>2. CASE InFlight # {}
      <4>1. PICK x : x \in InFlight
        BY <3>2
      <4>2. InFlight = {x}
        BY <4>1 DEF InFlight, OneAtATime
      <4> QED
        BY <4>2, FS_Singleton
    <3> QED
      BY <3>1, <3>2
  <2>2. Cardinality(InFlight) \in Nat /\ Cardinality(InFlight) < 1
    BY <1>2, <2>1, FS_CardinalityType DEF Arrives
  <2>3. InFlight = {}
    BY <2>1, <2>2, FS_EmptySet
  <2> QED
    BY <2>3 DEF InFlight
<1>3. \/ req[r].pc \in Working
      \/ \E op : Arrives(r, op)
  BY DEF Step, CreateInvoice, BeginCreateNote, CommitCreateNote, BeginUpdate,
         FlushHeader, ReadExistingLines, RefuseLines, CommitUpdate,
         BeginTransition, ReadLinesToSign, SaveXml, CommitTransition,
         BeginQueue, PublishTask, CommitQueued, WriteAudit, Crash, Working
<1> QED
  BY <1>1, <1>2, <1>3

-----------------------------------------------------------------------------
(* One lemma per conjunct of the inductive invariant *)

(* Whoever works after a step worked before, or is alone.                  *)
LEMMA OneAtATimeStep ==
  ASSUME WorkflowAssumption, MaxInFlight = 1, TypeOK, RequestsHaveDocuments,
         OneAtATime, NEW r \in Requests, Step(r)
  PROVE  /\ OneAtATime'
         /\ \A q \in Requests : q # r => req'[q].pc \notin Working
<1>1. \A q \in Requests : q # r => req'[q].pc \notin Working
  BY OthersRest, RequestStep
<1> QED
  BY <1>1 DEF OneAtATime

(* The one request that works has read what is there.                      *)
LEMMA RequestsAreCurrentStep ==
  ASSUME WorkflowAssumption, MaxInFlight = 1, TypeOK, RequestsHaveDocuments,
         OneAtATime, RequestsAreCurrent, NEW r \in Requests, Step(r)
  PROVE  RequestsAreCurrent'
<1>1. \A q \in Requests : q # r => req'[q].pc \notin Deciding
  BY OneAtATimeStep DEF Deciding
<1>2. "committed" \notin Deciding
  BY DEF Deciding
<1>3. ASSUME req'[r].pc \in Deciding
      PROVE  ReadIsCurrent(r)' /\ PassedItsChecks(r)'
  <2>1. Reads(r) \/ GoesOn(r) \/ Saves(r)
    BY <1>2, <1>3, ContentStep DEF Ends, Inserts, Edits, Moves
  <2>2. CASE Reads(r)
    BY <2>2 DEF Reads, ReadIsCurrent
  <2>3. CASE GoesOn(r)
    <3>1. ReadIsCurrent(r) /\ PassedItsChecks(r)
      BY <2>3 DEF GoesOn, RequestsAreCurrent
    <3>2. ReadIsCurrent(r)'
      BY <2>3, <3>1 DEF GoesOn, ReadIsCurrent
    <3>3. PassedItsChecks(r)'
      BY <2>3, <3>1 DEF GoesOn, PassedItsChecks
    <3> QED
      BY <3>2, <3>3
  <2>4. CASE Saves(r)
    <3>1. ReadIsCurrent(r) /\ PassedItsChecks(r)
      BY <2>4 DEF Saves, RequestsAreCurrent, Deciding, Working
    <3>2. /\ req'[r].pc = "saved"
          /\ req'[r].doc = req[r].doc
          /\ req'[r].op = req[r].op
          /\ req'[r].status = req[r].status
          /\ req'[r].header = req[r].header
          /\ req'[r].totals = req[r].totals
          /\ req'[r].lines = req[r].lines
      BY <2>4, req[r] \in Request DEF Saves, TypeOK, Request
    <3>3. Built(r)' = Built(r)
      BY <3>2 DEF Built
    <3>4. /\ xmlFile'[req[r].doc] = Built(r)
          /\ req[r].pc = "collected"
          /\ req[r].op = "sign"
          /\ UNCHANGED <<row, lines>>
      BY <2>4 DEF Saves
    <3>5. ReadIsCurrent(r)'
      BY <3>1, <3>2, <3>3, <3>4 DEF ReadIsCurrent
    <3>6. PassedItsChecks(r)'
      BY <3>1, <3>2, <3>4 DEF PassedItsChecks
    <3> QED
      BY <3>5, <3>6
  <2> QED
    BY <2>1, <2>2, <2>3, <2>4
<1>4. \A q \in Requests :
        req'[q].pc \in Deciding => ReadIsCurrent(q)' /\ PassedItsChecks(q)'
  BY <1>1, <1>3
<1> QED
  BY <1>4 DEF RequestsAreCurrent, Deciding, Working

(* A draft has never been signed, so a signature is set once.              *)
LEMMA DraftsAreUnsignedStep ==
  ASSUME WorkflowAssumption, TypeOK, RequestsHaveDocuments,
         RequestsAreCurrent, DraftsAreUnsigned, NEW r \in Requests, Step(r)
  PROVE  /\ DraftsAreUnsigned'
         /\ \A d \in Documents : row[d].signature # None =>
              /\ row'[d].signature = row[d].signature
              /\ ContentOf(d)' = ContentOf(d)
              /\ xmlFile'[d] = xmlFile[d]
<1> SUFFICES ASSUME NEW d \in Documents
             PROVE  /\ row'[d].status \in {"absent", "draft"} =>
                         row'[d].signature = None
                    /\ row[d].signature # None =>
                         /\ row'[d].signature = row[d].signature
                         /\ row'[d].header = row[d].header
                         /\ row'[d].totals = row[d].totals
                         /\ lines'[d] = lines[d]
                         /\ xmlFile'[d] = xmlFile[d]
  BY DEF DraftsAreUnsigned, ContentOf
<1>1. row[d].signature # None => row[d].status \notin {"absent", "draft"}
  BY DEF DraftsAreUnsigned
<1>2. CASE row'[d] = row[d] /\ lines'[d] = lines[d] /\ xmlFile'[d] = xmlFile[d]
  BY <1>2 DEF DraftsAreUnsigned
<1>3. CASE Saves(r)
  <2>1. req[r].status = "draft" /\ req[r].status = row[req[r].doc].status
    BY <1>3 DEF Saves, RequestsAreCurrent, PassedItsChecks, ReadIsCurrent,
                Deciding, Working
  <2> QED
    BY <1>1, <1>2, <1>3, <2>1 DEF Saves
<1>4. ASSUME NEW c \in Documents, Inserts(r, c)
      PROVE  /\ c # d => row'[d] = row[d] /\ lines'[d] = lines[d]
             /\ UNCHANGED xmlFile
             /\ c = d => row'[d].signature = None /\ row[d].status = "absent"
  BY <1>4 DEF Inserts
<1>5. CASE Edits(r)
  <2>1. row[req[r].doc].status = "draft"
    BY <1>5 DEF Edits, RequestsAreCurrent, PassedItsChecks, ReadIsCurrent,
                Deciding, Working, EditableStatuses
  <2> QED
    BY <1>1, <1>2, <1>5, <2>1 DEF Edits, DraftsAreUnsigned
<1>6. CASE Moves(r)
  <2>1. req[r].pc \in Deciding
    BY <1>6 DEF Moves, Deciding, Working
  <2>2. /\ req[r].status = row[req[r].doc].status
        /\ req[r].op = "sign" => req[r].status = "draft"
    BY <2>1 DEF RequestsAreCurrent, PassedItsChecks, ReadIsCurrent
  <2>3. row'[req[r].doc].status \notin {"absent", "draft"}
    BY <1>6 DEF Moves, Transition, Transitions
  <2> QED
    BY <1>1, <1>2, <1>6, <2>2, <2>3 DEF Moves
<1>7. CASE Ends(r) \/ Reads(r) \/ GoesOn(r)
  BY <1>2, <1>7 DEF Ends, Reads, GoesOn
<1> QED
  BY <1>1, <1>2, <1>3, <1>4, <1>5, <1>6, <1>7, ContentStep

(* An edit leaves the lines it computed the totals from.                   *)
LEMMA LinesMatchTotalsStep ==
  ASSUME WorkflowAssumption, TypeOK, RequestsHaveDocuments,
         RequestsAreCurrent, LinesMatchTotals, NEW r \in Requests, Step(r)
  PROVE  LinesMatchTotals'
<1> SUFFICES ASSUME NEW d \in Documents
             PROVE  lines'[d] = IF row'[d].totals = None THEN {}
                                ELSE {row'[d].totals}
  BY DEF LinesMatchTotals
<1>1. CASE row'[d].totals = row[d].totals /\ lines'[d] = lines[d]
  BY <1>1 DEF LinesMatchTotals
<1>2. ASSUME NEW t \in {r, None},
             row'[d].totals = t /\ lines'[d] = IF t = None THEN {} ELSE {t}
      PROVE  lines'[d] = IF row'[d].totals = None THEN {} ELSE {row'[d].totals}
  BY <1>2
<1>3. r # None
  BY DEF WorkflowAssumption
<1>4. CASE Ends(r) \/ Reads(r) \/ GoesOn(r) \/ Saves(r)
  BY <1>1, <1>4 DEF Ends, Reads, GoesOn, Saves
<1>5. ASSUME NEW c \in Documents, Inserts(r, c)
      PROVE  \/ row'[d].totals = row[d].totals /\ lines'[d] = lines[d]
             \/ row'[d].totals = r /\ lines'[d] = {r}
  BY <1>5 DEF Inserts
<1>6. CASE Edits(r)
  BY <1>1, <1>2, <1>6 DEF Edits
<1>7. CASE Moves(r)
  BY <1>1, <1>7 DEF Moves
<1> QED
  BY <1>1, <1>2, <1>3, <1>4, <1>5, <1>6, <1>7, ContentStep

(* A document is signed with the content it has and the file it has.       *)
LEMMA SignatureStep ==
  ASSUME WorkflowAssumption, TypeOK, RequestsHaveDocuments,
         RequestsAreCurrent, DraftsAreUnsigned, CufeMatchesXml,
         SignedContentIsKept, NEW r \in Requests, Step(r)
  PROVE  CufeMatchesXml' /\ SignedContentIsKept'
<1> SUFFICES ASSUME NEW d \in Documents, row'[d].signature # None
             PROVE  /\ xmlFile'[d] = row'[d].signature
                    /\ row'[d].signature = ContentOf(d)'
  BY DEF CufeMatchesXml, SignedContentIsKept
<1>1. CASE row[d].signature # None
  BY <1>1, DraftsAreUnsignedStep DEF CufeMatchesXml, SignedContentIsKept
<1>2. CASE row[d].signature = None
  <2>1. Moves(r) /\ req[r].op = "sign" /\ req[r].doc = d
    <3>1. CASE Ends(r) \/ Reads(r) \/ GoesOn(r) \/ Saves(r)
      BY <1>2, <3>1 DEF Ends, Reads, GoesOn, Saves
    <3>2. ASSUME NEW c \in Documents, Inserts(r, c)
          PROVE  FALSE
      BY <1>2, <3>2 DEF Inserts
    <3>3. CASE Edits(r)
      BY <1>2, <3>3 DEF Edits
    <3>4. CASE Moves(r)
      BY <1>2, <3>4 DEF Moves
    <3> QED
      BY <3>1, <3>2, <3>3, <3>4, ContentStep
  <2>2. /\ req[r].pc = "saved"
        /\ row'[d].signature = Built(r)
        /\ row'[d].header = row[d].header
        /\ row'[d].totals = row[d].totals
        /\ UNCHANGED <<lines, xmlFile>>
    BY <2>1 DEF Moves
  <2>3. ReadIsCurrent(r)
    BY <2>2 DEF RequestsAreCurrent, Deciding, Working
  <2>4. xmlFile[d] = Built(r) /\ Built(r) = ContentOf(d)
    BY <2>1, <2>2, <2>3 DEF ReadIsCurrent, Built, ContentOf
  <2>5. ContentOf(d)' = ContentOf(d)
    BY <2>2 DEF ContentOf
  <2> QED
    BY <2>2, <2>4, <2>5
<1> QED
  BY <1>1, <1>2

-----------------------------------------------------------------------------
(* What SerialInv speaks of is left alone.                                 *)
LEMMA SerialUndisturbed ==
  ASSUME SerialInv, UNCHANGED <<row, lines, xmlFile, req>>
  PROVE  SerialInv'
<1>1. OneAtATime' /\ DraftsAreUnsigned'
  BY DEF SerialInv, OneAtATime, DraftsAreUnsigned
<1>2. RequestsAreCurrent'
  BY DEF SerialInv, RequestsAreCurrent, ReadIsCurrent, PassedItsChecks, Built
<1>3. LinesMatchTotals' /\ CufeMatchesXml' /\ SignedContentIsKept'
  BY DEF SerialInv, LinesMatchTotals, CufeMatchesXml, SignedContentIsKept,
         ContentOf
<1> QED
  BY <1>1, <1>2, <1>3 DEF SerialInv

(* Every step keeps the inductive invariant.                               *)
LEMMA SerialStep ==
  ASSUME WorkflowAssumption, MaxInFlight = 1, WorkflowInv, SerialInv,
         [Next]_vars
  PROVE  SerialInv'
<1>1. CASE Next
  <2>1. PICK r \in Requests : Step(r)
    BY <1>1, NextIsStep
  <2> QED
    BY <2>1, OneAtATimeStep, RequestsAreCurrentStep, DraftsAreUnsignedStep,
       LinesMatchTotalsStep, SignatureStep DEF WorkflowInv, SerialInv
<1>2. CASE UNCHANGED vars
  BY <1>2, SerialUndisturbed DEF vars
<1> QED
  BY <1>1, <1>2

(* Nothing exists, nobody works.                                           *)
LEMMA SerialInit == ASSUME Init PROVE SerialInv
<1>1. /\ \A d \in Documents : row[d] = NoRow /\ lines[d] = {}
      /\ \A r \in Requests : req[r].pc \notin Working
  BY DEF Init, Idle, Working
<1>2. NoRow.signature = None /\ NoRow.totals = None
  BY DEF NoRow
<1> QED
  BY <1>1, <1>2
  DEF SerialInv, OneAtATime, RequestsAreCurrent, DraftsAreUnsigned,
      LinesMatchTotals, CufeMatchesXml, SignedContentIsKept, Deciding

(* Without overlaps, what a request has read is what the database holds    *)
(* when it commits, and what was signed is what the document says.         *)
THEOREM SerialInvariant ==
  ASSUME MaxInFlight = 1
  PROVE  Spec => []SerialInv
<1>1. Init => SerialInv
  BY SerialInit
<1>2. WorkflowInv /\ SerialInv /\ [Next]_vars => SerialInv'
  BY WorkflowAssumption, SerialStep
<1> QED
  BY <1>1, <1>2, WorkflowInvariant, PTL DEF Spec

(* update_invoice: without overlaps the stored lines are those the totals  *)
(* were computed from.                                                     *)
THEOREM SerialLinesMatchTotals ==
  ASSUME MaxInFlight = 1
  PROVE  Spec => []LinesMatchTotals
<1>1. SerialInv => LinesMatchTotals
  BY DEF SerialInv
<1> QED
  BY <1>1, SerialInvariant, PTL

(* The signing helpers: without overlaps the file of a signed document is  *)
(* the one its CUFE was computed from, wherever a request died.            *)
THEOREM SerialCufeMatchesXml ==
  ASSUME MaxInFlight = 1
  PROVE  Spec => []CufeMatchesXml
<1>1. SerialInv => CufeMatchesXml
  BY DEF SerialInv
<1> QED
  BY <1>1, SerialInvariant, PTL

-----------------------------------------------------------------------------
(* The refinement of the atomic lifecycle *)

StatusBar  == [d \in Documents |-> row[d].status]
ContentBar == [d \in Documents |-> ContentOf(d)]
IssuedBar  == [d \in Documents |->
                 IF row[d].signature = None THEN None ELSE xmlFile[d]]

(* A row with its lines is some content, before and after a step.          *)
LEMMA ContentType ==
  ASSUME NEW d \in Documents
  PROVE  /\ TypeOK => ContentOf(d) \in Content
         /\ TypeOK' => ContentOf(d)' \in Content
<1>1. ASSUME TypeOK PROVE ContentOf(d) \in Content
  <2>1. row[d] \in Row /\ lines[d] \in SUBSET Requests
    BY <1>1 DEF TypeOK
  <2> QED
    BY <2>1 DEF ContentOf, Content, Row
<1>2. ASSUME TypeOK' PROVE ContentOf(d)' \in Content
  <2>1. row'[d] \in Row /\ lines'[d] \in SUBSET Requests
    BY <1>2 DEF TypeOK
  <2> QED
    BY <2>1 DEF ContentOf, Content, Row
<1> QED
  BY <1>1, <1>2

(* At the beginning nothing exists.                                        *)
LEMMA LifecycleInit ==
  ASSUME WorkflowAssumption, Init PROVE Lifecycle!Init
<1>1. TypeOK
  BY WorkflowInit DEF WorkflowInv
<1>2. ContentBar \in [Documents -> Content]
  BY <1>1, ContentType DEF ContentBar
<1>3. \A d \in Documents : row[d].status = "absent" /\ row[d].signature = None
  BY DEF Init, NoRow
<1> QED
  BY <1>2, <1>3 DEF Lifecycle!Init, ContentBar

(* What is not written does not change the lifecycle.                      *)
LEMMA BarsUnchanged ==
  ASSUME \A d \in Documents :
           /\ row'[d].status = row[d].status
           /\ row'[d].signature = row[d].signature
           /\ ContentOf(d)' = ContentOf(d)
           /\ row[d].signature # None => xmlFile'[d] = xmlFile[d]
  PROVE  UNCHANGED Lifecycle!vars
BY DEF Lifecycle!vars

(* A commit of a new document is its atomic creation.                      *)
LEMMA InsertIsCreate ==
  ASSUME WorkflowAssumption, WorkflowInv, SerialInv, TypeOK',
         NEW r \in Requests, NEW d \in Documents, Inserts(r, d)
  PROVE  Lifecycle!Create(d)
<1>1. /\ StatusBar[d] = "absent"
      /\ StatusBar' = [StatusBar EXCEPT ![d] = "draft"]
  BY DEF Inserts, StatusBar
<1>2. \/ DocType[d] = "invoice"
      \/ \E i \in Documents : /\ DocType[i] = "invoice"
                              /\ StatusBar[i] \in ReferenceInvoiceStatuses
  <2>1. CASE req[r].pc = "read" /\ req[r].op = "create"
    <3>1. req[r].pc \in Deciding
      BY <2>1 DEF Deciding, Working
    <3>2. /\ req[r].doc \in Documents
          /\ DocType[req[r].doc] = "invoice"
          /\ req[r].status = row[req[r].doc].status
          /\ req[r].status \in ReferenceInvoiceStatuses
      BY <2>1, <3>1 DEF WorkflowInv, SerialInv, RequestsHaveDocuments,
         RequestsAreCurrent, ReadIsCurrent, PassedItsChecks, CreatedNotesRefer,
         Deciding
    <3> QED
      BY <3>2 DEF StatusBar
  <2> QED
    BY <2>1 DEF Inserts
<1>3. \E c \in Content : ContentBar' = [ContentBar EXCEPT ![d] = c]
  <2>1. ContentOf(d)' \in Content
    BY ContentType
  <2>2. \A c \in Documents : c # d => ContentOf(c)' = ContentOf(c)
    BY DEF Inserts, ContentOf
  <2>3. ContentBar' = [ContentBar EXCEPT ![d] = ContentOf(d)']
    BY <2>2 DEF ContentBar
  <2> QED
    BY <2>1, <2>3
<1>4. IssuedBar' = IssuedBar
  <2>1. row[d].signature = None
    BY DEF Inserts, SerialInv, DraftsAreUnsigned
  <2> QED
    BY <2>1 DEF Inserts, IssuedBar
<1> QED
  BY <1>1, <1>2, <1>3, <1>4
  DEF Lifecycle!Create, Lifecycle!ReferenceInvoiceStatuses,
      ReferenceInvoiceStatuses, StatusBar, ContentBar, IssuedBar

(* A commit of an update is the atomic edit of a draft.                    *)
LEMMA UpdateIsEdit ==
  ASSUME WorkflowAssumption, WorkflowInv, SerialInv, TypeOK',
         NEW r \in Requests, Edits(r)
  PROVE  \E d \in Documents : Lifecycle!Edit(d)
<1>0. PICK d \in Documents : d = req[r].doc
  BY DEF Edits
<1>1. /\ d \in Documents
      /\ DocType[d] = "invoice"
      /\ row[d].status \in EditableStatuses
  BY <1>0 DEF Edits, SerialInv, RequestsAreCurrent, ReadIsCurrent,
              PassedItsChecks, Deciding, Working
<1>2. \E c \in Content : ContentBar' = [ContentBar EXCEPT ![d] = c]
  <2>1. ContentOf(d)' \in Content
    BY <1>1, ContentType
  <2>2. \A c \in Documents : c # d => ContentOf(c)' = ContentOf(c)
    BY <1>0 DEF Edits, ContentOf
  <2>3. ContentBar' = [ContentBar EXCEPT ![d] = ContentOf(d)']
    BY <2>2 DEF ContentBar
  <2> QED
    BY <2>1, <2>3
<1>3. StatusBar' = StatusBar /\ IssuedBar' = IssuedBar
  BY <1>0 DEF Edits, StatusBar, IssuedBar
<1>4. Lifecycle!Edit(d)
  BY <1>1, <1>2, <1>3
  DEF Lifecycle!Edit, Lifecycle!EditableStatuses, EditableStatuses,
      StatusBar, ContentBar, IssuedBar
<1> QED
  BY <1>1, <1>4

(* A commit of a signature issues the content that the document has.       *)
LEMMA SignatureIsSign ==
  ASSUME WorkflowAssumption, WorkflowInv, SerialInv,
         NEW r \in Requests, Moves(r), req[r].op = "sign"
  PROVE  \E d \in Documents : Lifecycle!Sign(d)
<1>0. PICK d \in Documents : d = req[r].doc
  BY DEF Moves
<1>1. /\ d \in Documents
      /\ req[r].pc = "saved"
      /\ Transition(req[r].status, "sign", row'[d].status)
      /\ UNCHANGED <<lines, xmlFile>>
  BY <1>0 DEF Moves
<1>2. ReadIsCurrent(r)
  BY <1>1 DEF SerialInv, RequestsAreCurrent, Deciding, Working
<1>3. row[d].status = "draft" /\ row'[d].status = "signed"
  BY <1>0, <1>1, <1>2 DEF ReadIsCurrent, Transition, Transitions
<1>4. xmlFile[d] = Built(r) /\ Built(r) = ContentOf(d)
  BY <1>0, <1>1, <1>2 DEF ReadIsCurrent, Built, ContentOf
<1>5. Built(r) # None
  BY BuiltType DEF WorkflowInv
<1>6. StatusBar' = [StatusBar EXCEPT ![d] = "signed"]
  BY <1>0, <1>1, <1>3 DEF Moves, StatusBar
<1>7. ContentBar' = ContentBar
  BY <1>0, <1>1 DEF Moves, ContentBar, ContentOf
<1>8. IssuedBar' = [IssuedBar EXCEPT ![d] = ContentBar[d]]
  <2>1. \A c \in Documents : c # d => row'[c] = row[c]
    BY <1>0 DEF Moves
  <2>2. row'[d].signature # None
    BY <1>0, <1>5 DEF Moves
  <2>3. xmlFile'[d] = ContentBar[d]
    BY <1>1, <1>4 DEF ContentBar
  <2> QED
    BY <1>1, <2>1, <2>2, <2>3 DEF IssuedBar
<1>9. Lifecycle!Transition(StatusBar[d], "sign", "signed")
  BY <1>1, <1>3
  DEF Lifecycle!Transition, Lifecycle!Transitions, StatusBar
<1>10. Lifecycle!Sign(d)
  BY <1>6, <1>7, <1>8, <1>9 DEF Lifecycle!Sign, StatusBar, ContentBar, IssuedBar
<1> QED
  BY <1>1, <1>10

(* A commit of another transition moves the document.                      *)
LEMMA TransitionIsMove ==
  ASSUME WorkflowAssumption, WorkflowInv, SerialInv, TypeOK',
         NEW r \in Requests, Moves(r), req[r].op # "sign"
  PROVE  \E d \in Documents, action \in TransitionAction :
           Lifecycle!Move(d, action)
<1>0. PICK d \in Documents : d = req[r].doc
  BY DEF Moves
<1>a. PICK action \in TransitionAction : action = req[r].op
  BY DEF Moves
<1> DEFINE to == row'[d].status
<1>1. /\ d \in Documents
      /\ req[r].pc = "read"
      /\ action # "sign"
      /\ Transition(req[r].status, action, to)
      /\ UNCHANGED <<lines, xmlFile>>
  BY <1>0, <1>a DEF Moves
<1>2. req[r].status = row[d].status
  BY <1>0, <1>1
  DEF SerialInv, RequestsAreCurrent, ReadIsCurrent, Deciding, Working
<1>3. to \in DocumentStatus
  BY <1>1 DEF Transition, Transitions, DocumentStatus
<1>4. Lifecycle!Transition(StatusBar[d], action, to)
  BY <1>1, <1>2 DEF Transition, Transitions, Lifecycle!Transition,
     Lifecycle!Transitions, StatusBar
<1>5. StatusBar' = [StatusBar EXCEPT ![d] = to]
  BY <1>0, <1>a, <1>1 DEF Moves, StatusBar
<1>6. ContentBar' = ContentBar /\ IssuedBar' = IssuedBar
  BY <1>0, <1>a, <1>1 DEF Moves, ContentBar, ContentOf, IssuedBar
<1> HIDE DEF to
<1>7. Lifecycle!Move(d, action)
  BY <1>a, <1>3, <1>4, <1>5, <1>6 DEF Lifecycle!Move, Lifecycle!DocumentStatus,
     DocumentStatus, StatusBar, ContentBar, IssuedBar
<1> QED
  BY <1>1, <1>7

(* Every step is a step of the lifecycle, or one it does not see.          *)
LEMMA LifecycleStep ==
  ASSUME WorkflowAssumption, MaxInFlight = 1, WorkflowInv, SerialInv,
         [Next]_vars
  PROVE  [Lifecycle!Next]_(Lifecycle!vars)
<1>1. CASE UNCHANGED vars
  <2>1. UNCHANGED <<row, lines, xmlFile>>
    BY <1>1 DEF vars
  <2> QED
    BY <2>1, BarsUnchanged DEF ContentOf
<1>2. CASE Next
  <2>1. PICK r \in Requests : Step(r)
    BY <1>2, NextIsStep
  <2>2. TypeOK'
    BY <1>2, WorkflowStep DEF WorkflowInv
  <2>3. CASE Ends(r) \/ Reads(r) \/ GoesOn(r)
    <3>1. UNCHANGED <<row, lines, xmlFile>>
      BY <2>3 DEF Ends, Reads, GoesOn
    <3> QED
      BY <3>1, BarsUnchanged DEF ContentOf
  <2>4. CASE Saves(r)
    <3>1. UNCHANGED <<row, lines>>
      BY <2>4 DEF Saves
    <3>2. \A d \in Documents :
            row[d].signature # None => xmlFile'[d] = xmlFile[d]
      BY <2>1, DraftsAreUnsignedStep DEF WorkflowInv, SerialInv
    <3> QED
      BY <3>1, <3>2, BarsUnchanged DEF ContentOf
  <2>5. ASSUME NEW d \in Documents, Inserts(r, d)
        PROVE  Lifecycle!Next
    BY <2>2, <2>5, InsertIsCreate DEF Lifecycle!Next
  <2>6. CASE Edits(r)
    BY <2>2, <2>6, UpdateIsEdit DEF Lifecycle!Next
  <2>7. CASE Moves(r)
    BY <2>2, <2>7, SignatureIsSign, TransitionIsMove
    DEF Lifecycle!Next, Lifecycle!TransitionAction, TransitionAction
  <2> QED
    BY <2>1, <2>3, <2>4, <2>5, <2>6, <2>7, ContentStep
    DEF WorkflowInv, SerialInv
<1> QED
  BY <1>1, <1>2

(* Without overlaps the handlers implement the atomic lifecycle, deaths    *)
(* included: whatever the API promises of a document, they keep.           *)
THEOREM SerialHandlersImplementLifecycle ==
  ASSUME MaxInFlight = 1
  PROVE  Spec => ImplementsLifecycle
<1>1. Init => Lifecycle!Init
  BY WorkflowAssumption, LifecycleInit
<1>2. WorkflowInv /\ SerialInv /\ [Next]_vars =>
        [Lifecycle!Next]_(Lifecycle!vars)
  BY WorkflowAssumption, LifecycleStep
<1> QED
  BY <1>1, <1>2, WorkflowInvariant, SerialInvariant, PTL
  DEF Spec, ImplementsLifecycle, Lifecycle!Spec

-----------------------------------------------------------------------------
(* Content changes in a creation, or in an edit of a draft.                *)
LEMMA OnlyDraftsChange ==
  ASSUME WorkflowAssumption, WorkflowInv, SerialInv, [Next]_vars,
         NEW d \in Documents, row[d].status # "absent",
         ContentOf(d)' # ContentOf(d)
  PROVE  row[d].status \in EditableStatuses
<1>1. PICK r \in Requests : Step(r)
  <2>1. ~UNCHANGED vars
    BY DEF vars, ContentOf
  <2> QED
    BY <2>1, NextIsStep
<1>2. ContentOf(d)' # ContentOf(d) =>
        \/ row'[d].header # row[d].header
        \/ row'[d].totals # row[d].totals
        \/ lines'[d] # lines[d]
  BY DEF ContentOf
<1>3. CASE Edits(r)
  <2>1. req[r].doc = d
    BY <1>2, <1>3 DEF Edits
  <2> QED
    BY <1>3, <2>1
    DEF Edits, SerialInv, RequestsAreCurrent, ReadIsCurrent, PassedItsChecks,
        Deciding, Working
<1>4. ASSUME NEW c \in Documents, Inserts(r, c)
      PROVE  FALSE
  BY <1>2, <1>4 DEF Inserts
<1>5. CASE Moves(r)
  BY <1>2, <1>5 DEF Moves
<1>6. CASE Ends(r) \/ Reads(r) \/ GoesOn(r) \/ Saves(r)
  BY <1>2, <1>6 DEF Ends, Reads, GoesOn, Saves
<1> QED
  BY <1>1, <1>3, <1>4, <1>5, <1>6, ContentStep DEF WorkflowInv, SerialInv

(* "Editar solo en draft" holds without overlaps: that a signed document   *)
(* changes takes two requests that overlap.                                *)
THEOREM SerialEditsDraftsOnly ==
  ASSUME MaxInFlight = 1
  PROVE  Spec => EditedOnlyInDraft
<1>1. WorkflowInv /\ SerialInv /\ [Next]_vars =>
        [\A d \in Documents :
           row[d].status # "absent" /\ ContentOf(d)' # ContentOf(d) =>
             row[d].status \in EditableStatuses]_vars
  BY WorkflowAssumption, OnlyDraftsChange
<1> QED
  BY <1>1, WorkflowInvariant, SerialInvariant, PTL
  DEF Spec, EditedOnlyInDraft

=============================================================================
