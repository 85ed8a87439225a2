------------------------ MODULE DianSubmissionProofs ------------------------
(***************************************************************************)
(* Theorems about DianSubmission, for any number of workers, requests,     *)
(* documents, redeliveries, retries, losses and time limits: beside the    *)
(* workers the handlers keep what WorkflowInv says, the DIAN only gets     *)
(* documents that were submitted, and every recorded response is one it    *)
(* gave.  One worker, beside requests that do not overlap, records at most *)
(* one response for a document.                                            *)
(***************************************************************************)
EXTENDS DianSubmission, DocumentWorkflowProofs

-----------------------------------------------------------------------------
(* The inductive invariant *)

WasSubmitted(d) ==
  \E i \in 1 .. Len(events[d]) : events[d][i].type = "submitted"

(* A document reaches "submitted" by being submitted: the other event that *)
(* may say so leaves the status as it was.                                 *)
SubmittedHaveEvents ==
  \A d \in Documents : Reached(d, "submitted") => WasSubmitted(d)

(* A worker that is not free has a message, and one that has loaded its    *)
(* document found it submitted, and thus signed.                           *)
TaskIsSound(w) ==
  /\ task[w].pc # "free" => task[w].msg \in Message
  /\ task[w].pc \in {"loaded", "answered"} =>
       /\ task[w].status = "submitted"
       /\ Reached(DocOf(w), "submitted")
       /\ WasSigned(DocOf(w))
       /\ row[DocOf(w)].signature # None
  /\ task[w].pc = "answered" => task[w].answer \in Answers

TasksAreSound == \A w \in Workers : TaskIsSound(w)

SystemInv ==
  /\ WorkflowInv
  /\ SystemTypeOK
  /\ SubmittedHaveEvents
  /\ TasksAreSound
  /\ DianGetsSubmittedDocuments

-----------------------------------------------------------------------------
(* The steps of a worker, without the grouping into tasks *)

WorkerStep(w) ==
  \/ TakeTask(w)
  \/ LoadDocument(w)
  \/ SubmitDocument(w)
  \/ RecordResponse(w)
  \/ Acknowledge(w)
  \/ Retry(w)
  \/ WorkerLost(w)
  \/ TimeLimit(w)

(* Every step of the system is one of a handler or one of these.           *)
LEMMA SystemNextIsStep ==
  ASSUME SystemNext
  PROVE  \/ Next /\ UNCHANGED taskVars
         \/ \E w \in Workers : WorkerStep(w)
BY DEF SystemNext, Work, Disturb, SubmitInvoiceToDian, SubmitCreditNoteToDian,
       SubmitDebitNoteToDian, SubmitToDian, WorkerStep

(* A worker takes a record of its own.                                     *)
LEMMA RenewTask ==
  ASSUME SystemTypeOK, NEW w \in Workers, NEW new \in Task,
         task' = [task EXCEPT ![w] = new]
  PROVE  /\ task' \in [Workers -> Task]
         /\ task'[w] = new
         /\ \A v \in Workers : v # w => task'[v] = task[v]
BY DEF SystemTypeOK

-----------------------------------------------------------------------------
(* Handlers *)

(* A handler that makes a document reach "submitted" for the first time    *)
(* has submitted it.                                                       *)
LEMMA SubmittedHaveEventsStep ==
  ASSUME WorkflowAssumption, WorkflowInv, SubmittedHaveEvents,
         NEW r \in Requests, Step(r), NEW c \in Documents,
         Reached(c, "submitted")'
  PROVE  WasSubmitted(c)'
<1> USE DEF WorkflowInv
<1>1. CASE events' = events
  BY <1>1 DEF SubmittedHaveEvents, Reached, WasSubmitted
<1>2. ASSUME NEW d \in Documents, NEW type \in DocumentEventType,
             NEW from \in Status, NEW to \in Status,
             RecordEvent(d, type, from, to),
             \/ Created(r, d, type, from, to)
             \/ Moved(r, d, type, from, to)
             \/ Queued(r, d, type, from, to)
      PROVE  WasSubmitted(c)'
  <2>1. /\ Len(events[d]) \in Nat
        /\ Len(events'[d]) = Len(events[d]) + 1
        /\ \A i \in 1 .. Len(events[d]) : events'[d][i] = events[d][i]
        /\ events'[d][Len(events[d]) + 1].type = type
        /\ events'[d][Len(events[d]) + 1].to = to
        /\ \A e \in Documents : e # d => events'[e] = events[e]
    BY <1>2, NewEvent
  <2>2. CASE Reached(c, "submitted")
    <3>1. PICK i \in 1 .. Len(events[c]) : events[c][i].type = "submitted"
      BY <2>2 DEF SubmittedHaveEvents, WasSubmitted
    <3> QED
      BY <2>1, <3>1 DEF WasSubmitted
  <2>3. CASE ~Reached(c, "submitted")
    <3>1. c = d /\ to = "submitted"
      BY <2>1, <2>3 DEF Reached
    <3>2. type = "submitted"
      <4>1. ~Created(r, d, type, from, to)
        BY <3>1 DEF Created
      <4>2. ~Queued(r, d, type, from, to)
        BY <2>3, <3>1 DEF Queued, StatusesWereReached
      <4> QED
        BY <1>2, <3>1, <4>1, <4>2 DEF Moved, Transition, Transitions,
           EventTypeForTransition, TransitionAction
    <3> QED
      BY <2>1, <3>1, <3>2 DEF WasSubmitted
  <2> QED
    BY <2>2, <2>3
<1> QED
  BY <1>1, <1>2, DocumentStep

(* An event "submitted" stays.                                             *)
LEMMA SubmissionsStay ==
  ASSUME WorkflowAssumption, WorkflowInv, NEW r \in Requests, Step(r),
         NEW c \in Documents, WasSubmitted(c)
  PROVE  WasSubmitted(c)'
<1> USE DEF WorkflowInv
<1>1. CASE events' = events
  BY <1>1 DEF WasSubmitted
<1>2. ASSUME NEW d \in Documents, NEW type \in DocumentEventType,
             NEW from \in Status, NEW to \in Status,
             RecordEvent(d, type, from, to)
      PROVE  WasSubmitted(c)'
  BY <1>2, NewEvent DEF WasSubmitted
<1> QED
  BY <1>1, <1>2, DocumentStep

(* What a handler does takes nothing away from the documents of the tasks. *)
LEMMA HandlerKeepsSystem ==
  ASSUME WorkflowAssumption, SystemInv, Next, UNCHANGED taskVars
  PROVE  SystemInv'
<1>1. PICK r \in Requests : Step(r)
  BY NextIsStep
<1>2. WorkflowInv'
  BY WorkflowStep DEF SystemInv
<1>3. UNCHANGED task /\ UNCHANGED dian /\ UNCHANGED faults /\ UNCHANGED timeouts
  BY DEF taskVars
<1>4. SystemTypeOK'
  BY <1>2, <1>3 DEF SystemInv, SystemTypeOK, WorkflowInv
<1>5. SubmittedHaveEvents'
  BY <1>1, SubmittedHaveEventsStep DEF SystemInv, SubmittedHaveEvents
<1>6. TasksAreSound'
  <2> SUFFICES ASSUME NEW w \in Workers PROVE TaskIsSound(w)'
    BY DEF TasksAreSound
  <2>1. TaskIsSound(w)
    BY DEF SystemInv, TasksAreSound
  <2>2. task'[w] = task[w] /\ DocOf(w)' = DocOf(w)
    BY <1>3 DEF DocOf
  <2>3. CASE task[w].pc \in {"loaded", "answered"}
    <3>1. PICK d \in Documents : d = DocOf(w)
      BY <2>1, <2>3 DEF TaskIsSound, DocOf, Message
    <3>2. /\ Reached(d, "submitted")
          /\ WasSigned(d)
          /\ row[d].signature # None
      BY <2>1, <2>3, <3>1 DEF TaskIsSound
    <3>3. row[d].status # "absent"
      BY <3>2, ReachedExists DEF SystemInv, WorkflowInv
    <3>4. /\ Reached(d, "submitted")'
          /\ WasSigned(d)'
          /\ row'[d].signature # None
      BY <1>1, <3>2, <3>3, HistoryGrows DEF SystemInv, WorkflowInv
    <3> QED
      BY <2>1, <2>2, <3>1, <3>4 DEF TaskIsSound, Reached, WasSigned
  <2>4. CASE task[w].pc \notin {"loaded", "answered"}
    BY <2>1, <2>2, <2>4 DEF TaskIsSound
  <2> QED
    BY <2>3, <2>4
<1>7. DianGetsSubmittedDocuments'
  <2> SUFFICES ASSUME NEW d \in Documents, dian[d] # <<>>
               PROVE  \E i \in DOMAIN events'[d] :
                        events'[d][i].type = "submitted"
    BY <1>3 DEF DianGetsSubmittedDocuments
  <2>1. WasSubmitted(d)
    <3>1. PICK i \in DOMAIN events[d] : events[d][i].type = "submitted"
      BY DEF SystemInv, DianGetsSubmittedDocuments
    <3>2. events[d] \in Seq(Event)
      BY DEF SystemInv, SystemTypeOK, TypeOK
    <3> QED
      BY <3>1, <3>2 DEF WasSubmitted
  <2>2. WasSubmitted(d)'
    BY <1>1, <2>1, SubmissionsStay DEF SystemInv
  <2>3. events'[d] \in Seq(Event)
    BY <1>2 DEF WorkflowInv, TypeOK
  <2> QED
    BY <2>2, <2>3 DEF WasSubmitted
<1> QED
  BY <1>2, <1>4, <1>5, <1>6, <1>7 DEF SystemInv

-----------------------------------------------------------------------------
(* Workers that write no document *)

(* What a worker is after such a step                                      *)
LEMMA QuietWorker ==
  ASSUME SystemInv, NEW w \in Workers, NEW new \in Task,
         task' = [task EXCEPT ![w] = new],
         UNCHANGED <<row, lines, events, xmlFile, lock, audit, req, crashes>>,
         broker' \subseteq Message,
         faults' \in Nat, timeouts' \in Nat,
         dian' \in [Documents -> Seq(Submission)],
         \A d \in Documents :
           dian'[d] # <<>> => dian[d] # <<>> \/ WasSubmitted(d),
         new.pc # "free" => new.msg \in Message,
         new.pc \in {"loaded", "answered"} =>
           /\ new.status = "submitted"
           /\ Reached(new.msg.doc, "submitted")
           /\ WasSigned(new.msg.doc)
           /\ row[new.msg.doc].signature # None,
         new.pc = "answered" => new.answer \in Answers
  PROVE  SystemInv'
<1>1. WorkflowInv'
  BY HandlersUndisturbed DEF SystemInv, WorkflowInv, TypeOK
<1>2. /\ task' \in [Workers -> Task]
      /\ task'[w] = new
      /\ \A v \in Workers : v # w => task'[v] = task[v]
  BY RenewTask DEF SystemInv
<1>3. SystemTypeOK'
  BY <1>1, <1>2 DEF SystemTypeOK, WorkflowInv
<1>4. SubmittedHaveEvents'
  BY DEF SystemInv, SubmittedHaveEvents, Reached, WasSubmitted
<1>5. TasksAreSound'
  <2>1. ASSUME NEW v \in Workers, v # w PROVE TaskIsSound(v)'
    <3>1. TaskIsSound(v) /\ task'[v] = task[v]
      BY <1>2, <2>1 DEF SystemInv, TasksAreSound
    <3> QED
      BY <3>1 DEF TaskIsSound, DocOf, Reached, WasSigned
  <2>2. TaskIsSound(w)'
    BY <1>2 DEF TaskIsSound, DocOf, Reached, WasSigned
  <2> QED
    BY <2>1, <2>2 DEF TasksAreSound
<1>6. DianGetsSubmittedDocuments'
  <2> SUFFICES ASSUME NEW d \in Documents, dian'[d] # <<>>
               PROVE  \E i \in DOMAIN events[d] :
                        events[d][i].type = "submitted"
    BY DEF DianGetsSubmittedDocuments
  <2>1. events[d] \in Seq(Event)
    BY DEF SystemInv, SystemTypeOK, TypeOK
  <2> QED
    BY <2>1 DEF SystemInv, DianGetsSubmittedDocuments, WasSubmitted
<1> QED
  BY <1>1, <1>3, <1>4, <1>5, <1>6 DEF SystemInv

(* A worker that becomes free, its message perhaps back in the broker.     *)
LEMMA FreedWorker ==
  ASSUME SystemInv, NEW w \in Workers,
         task' = [task EXCEPT ![w] = Free],
         UNCHANGED <<row, lines, events, xmlFile, lock, audit, req, crashes,
                     dian>>,
         broker' \subseteq Message,
         faults' \in Nat, timeouts' \in Nat
  PROVE  SystemInv'
<1>1. Free \in Task /\ Free.pc = "free"
  BY DEF Free, Task, Status
<1>2. dian' \in [Documents -> Seq(Submission)]
  BY DEF SystemInv, SystemTypeOK
<1> QED
  BY <1>1, <1>2, QuietWorker

(* Every step of a worker but the recording of an answer.                  *)
LEMMA QuietWorkerStep ==
  ASSUME SystemInv, NEW w \in Workers, WorkerStep(w), ~RecordResponse(w)
  PROVE  SystemInv'
<1>1. /\ task[w] \in Task
      /\ TaskIsSound(w)
      /\ broker \subseteq Message
      /\ faults \in Nat /\ timeouts \in Nat
      /\ dian \in [Documents -> Seq(Submission)]
  BY DEF SystemInv, SystemTypeOK, TypeOK, TasksAreSound
<1>2. CASE TakeTask(w)
  <2>1. PICK m \in Message :
          task' = [task EXCEPT ![w] = [Free EXCEPT !.pc = "taken", !.msg = m]]
    BY <1>1, <1>2 DEF TakeTask
  <2> DEFINE new == [Free EXCEPT !.pc = "taken", !.msg = m]
  <2>2. new \in Task /\ new.pc = "taken" /\ new.msg = m
    BY DEF Free, Task, Status
  <2>3. /\ broker' \subseteq Message
        /\ UNCHANGED <<row, lines, events, xmlFile, lock, audit, req, crashes,
                       dian, faults, timeouts>>
    BY <1>1, <1>2 DEF TakeTask
  <2>4. task' = [task EXCEPT ![w] = new]
    BY <2>1
  <2> HIDE DEF new
  <2> QED
    BY <1>1, <2>2, <2>3, <2>4, QuietWorker
<1>3. CASE LoadDocument(w)
  <2> DEFINE d == DocOf(w)
  <2>1. task[w].msg \in Message /\ d \in Documents
    BY <1>1, <1>3 DEF LoadDocument, TaskIsSound, DocOf, Message
  <2>2. /\ UNCHANGED <<row, lines, events, xmlFile, lock, audit, req, crashes>>
        /\ broker' = broker
        /\ UNCHANGED <<dian, faults, timeouts>>
    BY <1>3 DEF LoadDocument, vars
  <2>3. CASE task' = [task EXCEPT ![w].pc = "finished"]
    <3> DEFINE new == [task[w] EXCEPT !.pc = "finished"]
    <3>1. new \in Task /\ new.pc = "finished" /\ new.msg = task[w].msg
      BY <1>1 DEF Task
    <3>2. task' = [task EXCEPT ![w] = new]
      BY <2>3
    <3> HIDE DEF new
    <3> QED
      BY <1>1, <2>1, <2>2, <3>1, <3>2, QuietWorker
  <2>4. CASE /\ row[d].status = "submitted"
             /\ row[d].signature # None
             /\ task' = [task EXCEPT ![w].pc = "loaded",
                                     ![w].status = row[d].status]
    <3> DEFINE new == [task[w] EXCEPT !.pc = "loaded", !.status = "submitted"]
    <3>1. /\ new \in Task
          /\ new.pc = "loaded"
          /\ new.msg = task[w].msg
          /\ new.status = "submitted"
      BY <1>1 DEF Task, Status, DocumentStatus
    <3>2. task' = [task EXCEPT ![w] = new]
      BY <1>1, <2>4 DEF SystemInv, SystemTypeOK, Task
    <3>3. Reached(d, "submitted") /\ WasSigned(d)
      BY <2>1, <2>4 DEF SystemInv, WorkflowInv, StatusesWereReached,
         IssuedWereSigned, IssuedStatuses
    <3> HIDE DEF new
    <3> QED
      BY <1>1, <2>1, <2>2, <2>4, <3>1, <3>2, <3>3, QuietWorker DEF DocOf
  <2> QED
    BY <1>3, <2>3, <2>4 DEF LoadDocument
<1>4. CASE SubmitDocument(w)
  <2> DEFINE d == DocOf(w)
  <2>1. /\ task[w].msg \in Message
        /\ d \in Documents
        /\ task[w].status = "submitted"
        /\ Reached(d, "submitted")
        /\ WasSigned(d)
        /\ row[d].signature # None
    BY <1>1, <1>4 DEF SubmitDocument, TaskIsSound, DocOf, Message
  <2>2. PICK answer \in Answers :
          /\ dian' = [dian EXCEPT ![d] =
                        Append(@, [xml |-> xmlFile[d], answer |-> answer])]
          /\ task' = [task EXCEPT ![w].pc = "answered", ![w].answer = answer]
    BY <1>4 DEF SubmitDocument
  <2>3. /\ UNCHANGED <<row, lines, events, xmlFile, lock, audit, req, crashes>>
        /\ broker' = broker
        /\ UNCHANGED <<faults, timeouts>>
    BY <1>4 DEF SubmitDocument, vars
  <2>4. dian' \in [Documents -> Seq(Submission)]
    <3> DEFINE sent == [xml |-> xmlFile[d], answer |-> answer]
    <3>1. sent \in Submission
      BY <2>1 DEF SystemInv, SystemTypeOK, TypeOK, Submission
    <3>2. dian[d] \in Seq(Submission)
      BY <1>1, <2>1
    <3>3. dian' = [dian EXCEPT ![d] = Append(dian[d], sent)]
      BY <2>2
    <3> HIDE DEF sent
    <3>4. Append(dian[d], sent) \in Seq(Submission)
      BY <3>1, <3>2
    <3> QED
      BY <1>1, <3>3, <3>4
  <2>5. \A c \in Documents :
          dian'[c] # <<>> => dian[c] # <<>> \/ WasSubmitted(c)
    <3>1. WasSubmitted(d)
      BY <2>1 DEF SystemInv, SubmittedHaveEvents
    <3>2. \A c \in Documents : c # d => dian'[c] = dian[c]
      BY <1>1, <2>2
    <3> QED
      BY <3>1, <3>2
  <2> DEFINE new == [task[w] EXCEPT !.pc = "answered", !.answer = answer]
  <2>6. /\ new \in Task
        /\ new.pc = "answered"
        /\ new.msg = task[w].msg
        /\ new.status = task[w].status
        /\ new.answer = answer
    BY <1>1 DEF Task
  <2>7. task' = [task EXCEPT ![w] = new]
    BY <1>1, <2>2 DEF SystemInv, SystemTypeOK, Task
  <2> HIDE DEF new
  <2> QED
    BY <1>1, <2>1, <2>3, <2>4, <2>5, <2>6, <2>7, QuietWorker DEF DocOf
<1>5. CASE Acknowledge(w)
  BY <1>1, <1>5, FreedWorker DEF Acknowledge, vars
<1>6. CASE Retry(w)
  <2>1. task[w].msg \in Message
    BY <1>1, <1>6 DEF Retry, TaskIsSound
  <2> DEFINE again == [task[w].msg EXCEPT !.retries = @ + 1]
  <2>2. again \in Message
    BY <2>1 DEF Message
  <2>3. broker' = broker \/ broker' = broker \cup {again}
    BY <1>6 DEF Retry
  <2> HIDE DEF again
  <2>4. broker' \subseteq Message
    BY <1>1, <2>2, <2>3
  <2>5. faults' \in Nat
    BY <1>1, <1>6 DEF Retry
  <2> QED
    BY <1>1, <1>6, <2>4, <2>5, FreedWorker DEF Retry
<1>7. CASE WorkerLost(w)
  <2>1. broker' \subseteq Message /\ faults' \in Nat
    BY <1>1, <1>7 DEF WorkerLost, TaskIsSound
  <2> QED
    BY <1>1, <1>7, <2>1, FreedWorker DEF WorkerLost
<1>8. CASE TimeLimit(w)
  <2>1. timeouts' \in Nat
    BY <1>1, <1>8 DEF TimeLimit
  <2>2. UNCHANGED <<row, lines, events, xmlFile, lock, audit, req, crashes,
                    dian>>
    BY <1>8 DEF TimeLimit, vars
  <2>3. broker' = broker /\ faults' = faults
    BY <1>8 DEF TimeLimit, vars
  <2> QED
    BY <1>1, <1>8, <2>1, <2>2, <2>3, FreedWorker DEF TimeLimit
<1> QED
  BY <1>2, <1>3, <1>4, <1>5, <1>6, <1>7, <1>8 DEF WorkerStep

-----------------------------------------------------------------------------
(* A worker that records the answer *)

(* The row gets the answer as its status and its response.                 *)
LEMMA ResponseRow ==
  ASSUME TypeOK, NEW d \in Documents, NEW answer \in Answers,
         row' = [row EXCEPT ![d].status = answer, ![d].response = answer]
  PROVE  /\ row' \in [Documents -> Row]
         /\ row'[d].status = answer
         /\ row'[d].response = answer
         /\ row'[d].signature = row[d].signature
         /\ row'[d].reference = row[d].reference
         /\ \A c \in Documents : c # d => row'[c] = row[c]
<1> DEFINE moved == [row EXCEPT ![d].status = answer]
<1>1. row[d] \in Row
  BY DEF TypeOK
<1>2. [row[d] EXCEPT !.status = answer] \in Row
  BY <1>1 DEF Row, Status, DocumentStatus, Answers
<1>3. /\ moved \in [Documents -> Row]
      /\ moved[d] = [row[d] EXCEPT !.status = answer]
      /\ \A c \in Documents : c # d => moved[c] = row[c]
  BY <1>2 DEF TypeOK
<1>4. row' = [moved EXCEPT ![d].response = answer]
  OBVIOUS
<1>5. /\ moved[d].status = answer
      /\ moved[d].signature = row[d].signature
      /\ moved[d].reference = row[d].reference
  BY <1>1, <1>3 DEF Row
<1> HIDE DEF moved
<1> DEFINE new == [moved[d] EXCEPT !.response = answer]
<1>6. /\ new \in Row
      /\ new.status = moved[d].status
      /\ new.response = answer
      /\ new.signature = moved[d].signature
      /\ new.reference = moved[d].reference
  <2>1. moved[d] \in Row
    BY <1>3
  <2> QED
    BY <2>1 DEF Row, Answers
<1>7. row' = [moved EXCEPT ![d] = new]
  BY <1>4
<1> HIDE DEF new
<1>8. /\ row' \in [Documents -> Row]
      /\ row'[d] = new
      /\ \A c \in Documents : c # d => row'[c] = moved[c]
  BY <1>3, <1>6, <1>7
<1> QED
  BY <1>3, <1>5, <1>6, <1>8

(* The row's status, the response and the event, whatever status the row   *)
(* had: the worker found the document submitted before.                    *)
LEMMA ResponseStep ==
  ASSUME SystemInv, NEW w \in Workers, RecordResponse(w)
  PROVE  SystemInv'
<1> DEFINE d == DocOf(w)
           answer == task[w].answer
           n == Len(events[d])
<1>1. /\ task[w] \in Task
      /\ TaskIsSound(w)
      /\ TypeOK
  BY DEF SystemInv, SystemTypeOK, TasksAreSound
<1>2. /\ task[w].msg \in Message
      /\ d \in Documents
      /\ answer \in Answers
      /\ task[w].status = "submitted"
      /\ Reached(d, "submitted")
      /\ WasSigned(d)
      /\ row[d].signature # None
  BY <1>1 DEF RecordResponse, TaskIsSound, DocOf, Message
<1>3. /\ row' \in [Documents -> Row]
      /\ row'[d].status = answer
      /\ row'[d].signature = row[d].signature
      /\ row'[d].reference = row[d].reference
      /\ \A c \in Documents : c # d => row'[c] = row[c]
  BY <1>1, <1>2, ResponseRow DEF RecordResponse
<1>4. RecordEvent(d, "dian_response", "submitted", answer)
  BY <1>2 DEF RecordResponse
<1>5. /\ "dian_response" \in DocumentEventType
      /\ "submitted" \in Status
      /\ answer \in Status
      /\ answer # "submitted" /\ answer # "absent"
  BY <1>2 DEF DocumentEventType, Status, DocumentStatus, Answers
<1>6. UNCHANGED <<lines, xmlFile, lock, broker, audit, req, crashes,
                  dian, faults, timeouts>>
  BY DEF RecordResponse
<1>7. /\ task' \in [Workers -> Task]
      /\ task'[w].pc = "recorded"
      /\ task'[w].msg = task[w].msg
      /\ \A v \in Workers : v # w => task'[v] = task[v]
  <2> DEFINE new == [task[w] EXCEPT !.pc = "recorded"]
  <2>1. new \in Task /\ new.pc = "recorded" /\ new.msg = task[w].msg
    BY <1>1 DEF Task
  <2>2. task' = [task EXCEPT ![w] = new]
    BY DEF RecordResponse
  <2> HIDE DEF new
  <2> QED
    BY <2>1, <2>2, RenewTask DEF SystemInv
<1> HIDE DEF d, answer
<1>8. /\ events' \in [Documents -> Seq(Event)]
      /\ n \in Nat
      /\ Len(events'[d]) = n + 1
      /\ \A i \in 1 .. n : events'[d][i] = events[d][i]
      /\ events'[d][n + 1].type = "dian_response"
      /\ events'[d][n + 1].from = "submitted"
      /\ events'[d][n + 1].to = answer
      /\ \A c \in Documents : c # d => events'[c] = events[c]
  <2>1. events' \in [Documents -> Seq(Event)]
    BY <1>1, <1>2, <1>4, <1>5, RecordEventType
  <2> QED
    BY <1>1, <1>2, <1>4, <1>5, <2>1, NewEvent
<1> HIDE DEF n
<1>9. /\ \A c \in Documents : WasSigned(c) => WasSigned(c)'
      /\ \A c \in Documents : WasSubmitted(c) => WasSubmitted(c)'
  BY <1>8 DEF WasSigned, WasSubmitted, n
<1>10. ASSUME NEW c \in Documents, NEW s, Reached(c, s)
       PROVE  \E i \in 1 .. Len(events'[c]) : events'[c][i].to = s
  BY <1>8, <1>10 DEF Reached, n
<1>11. TypeOK' /\ RequestsHaveDocuments'
  BY <1>1, <1>3, <1>6, <1>8
  DEF TypeOK, SystemInv, WorkflowInv, RequestsHaveDocuments
<1>12. StatusIsLastEvent'
  <2> SUFFICES ASSUME NEW c \in Documents
      PROVE  /\ row'[c].status = "absent" <=> events'[c] = <<>>
             /\ \A i \in 1 .. Len(events'[c]) :
                  /\ ChangesStatus(events'[c][i])
                  /\ \A j \in i + 1 .. Len(events'[c]) :
                       ~ChangesStatus(events'[c][j])
                  => row'[c].status = events'[c][i].to
    BY DEF StatusIsLastEvent, ChangesStatus
  <2>1. CASE c # d
    BY <1>3, <1>8, <2>1 DEF SystemInv, WorkflowInv, StatusIsLastEvent
  <2>2. CASE c = d
    <3>1. events'[d] # <<>>
      BY <1>8
    <3>2. ASSUME NEW i \in 1 .. n
          PROVE  n + 1 \in i + 1 .. Len(events'[d])
      BY <1>8
    <3>3. ChangesStatus(events'[d][n + 1])
      BY <1>8 DEF ChangesStatus
    <3>4. \A i \in 1 .. Len(events'[d]) : i \in 1 .. n \/ i = n + 1
      BY <1>8
    <3> QED
      BY <1>3, <1>5, <1>8, <2>2, <3>1, <3>2, <3>3, <3>4
  <2> QED
    BY <2>1, <2>2
<1>13. StatusesWereReached'
  <2>1. ASSUME NEW c \in Documents, row'[c].status # "absent"
        PROVE  \E i \in 1 .. Len(events'[c]) : events'[c][i].to = row'[c].status
    <3>1. CASE c = d
      BY <1>3, <1>8, <3>1, n + 1 \in 1 .. Len(events'[d])
    <3>2. CASE c # d
      BY <1>3, <1>10, <2>1, <3>2
      DEF SystemInv, WorkflowInv, StatusesWereReached
    <3> QED
      BY <3>1, <3>2
  <2>2. ASSUME NEW r \in Requests, req[r].pc \in Deciding
        PROVE  \E i \in 1 .. Len(events'[req[r].doc]) :
                 events'[req[r].doc][i].to = req[r].status
    <3>1. req[r].doc \in Documents /\ Reached(req[r].doc, req[r].status)
      BY <2>2 DEF SystemInv, WorkflowInv, RequestsHaveDocuments,
                  StatusesWereReached, Deciding
    <3> QED
      BY <1>10, <3>1
  <2> QED
    BY <1>6, <2>1, <2>2 DEF StatusesWereReached, Reached
<1>14. EventsAreConnected'
  <2> SUFFICES ASSUME NEW c \in Documents, NEW i \in 1 .. Len(events'[c])
      PROVE  IF i = 1
               THEN events'[c][1].type = "created"
               ELSE \E j \in 1 .. i - 1 : events'[c][j].to = events'[c][i].from
    BY DEF EventsAreConnected
  <2>1. CASE c # d
    BY <1>8, <2>1 DEF SystemInv, WorkflowInv, EventsAreConnected
  <2>2. CASE c = d /\ i = n + 1
    <3>1. PICK j \in 1 .. n : events[d][j].to = "submitted"
      BY <1>2 DEF Reached, n
    <3>2. i # 1 /\ j \in 1 .. i - 1
      BY <1>8, <2>2, <3>1
    <3> QED
      BY <1>8, <2>2, <3>1, <3>2
  <2>3. CASE c = d /\ i # n + 1
    <3>1. i \in 1 .. n
      BY <1>8, <2>3
    <3>2. IF i = 1
            THEN events[d][1].type = "created"
            ELSE \E j \in 1 .. i - 1 : events[d][j].to = events[d][i].from
      BY <1>2, <3>1 DEF SystemInv, WorkflowInv, EventsAreConnected, n
    <3>3. \A j \in 1 .. i - 1 : j \in 1 .. n
      BY <1>8, <3>1
    <3> QED
      BY <1>8, <2>3, <3>1, <3>2, <3>3
  <2> QED
    BY <2>1, <2>2, <2>3
<1>15. IssuedWereSigned'
  <2>1. ASSUME NEW c \in Documents, row'[c].status \in IssuedStatuses
        PROVE  row'[c].signature # None /\ WasSigned(c)'
    <3>1. CASE c = d
      BY <1>2, <1>3, <1>9, <3>1
    <3>2. CASE c # d
      BY <1>3, <1>9, <2>1, <3>2 DEF SystemInv, WorkflowInv, IssuedWereSigned
    <3> QED
      BY <3>1, <3>2
  <2>2. ASSUME NEW r \in Requests, req[r].pc \in Deciding,
               req[r].status \in IssuedStatuses
        PROVE  /\ row'[req[r].doc].signature # None
               /\ \E i \in 1 .. Len(events'[req[r].doc]) :
                    events'[req[r].doc][i].type = "signed"
    <3>1. PICK c \in Documents : c = req[r].doc
      BY <2>2 DEF SystemInv, WorkflowInv, RequestsHaveDocuments, Deciding
    <3>2. row[c].signature # None /\ WasSigned(c)
      BY <2>2, <3>1 DEF SystemInv, WorkflowInv, IssuedWereSigned
    <3> QED
      BY <1>3, <1>9, <3>1, <3>2 DEF WasSigned
  <2> QED
    BY <1>6, <2>1, <2>2 DEF IssuedWereSigned, WasSigned
<1>16. CreatedNotesRefer'
  BY <1>6 DEF SystemInv, WorkflowInv, CreatedNotesRefer
<1>17. NotesReferToSignedInvoices'
  <2> SUFFICES ASSUME NEW c \in Documents, row'[c].reference # None
      PROVE  \E i \in 1 .. Len(events'[row'[c].reference]) :
               events'[row'[c].reference][i].type = "signed"
    BY DEF NotesReferToSignedInvoices, WasSigned
  <2>1. row'[c].reference = row[c].reference
    BY <1>3
  <2>2. row[c].reference \in Documents
    <3>1. row[c] \in Row
      BY <1>1 DEF TypeOK
    <3> QED
      BY <2>1, <3>1 DEF Row
  <2>3. WasSigned(row[c].reference)
    BY <2>1 DEF SystemInv, WorkflowInv, NotesReferToSignedInvoices
  <2> QED
    BY <1>9, <2>1, <2>2, <2>3 DEF WasSigned
<1>18. SigningHasXml' /\ SignedXmlHasLines'
  <2>1. \A c \in Documents : row'[c].signature = row[c].signature
    BY <1>3
  <2> QED
    BY <1>6, <2>1
    DEF SystemInv, WorkflowInv, SigningHasXml, SignedXmlHasLines
<1>19. WorkflowInv'
  BY <1>11, <1>12, <1>13, <1>14, <1>15, <1>16, <1>17, <1>18 DEF WorkflowInv
<1>20. SystemTypeOK'
  BY <1>6, <1>7, <1>11 DEF SystemInv, SystemTypeOK
<1>21. SubmittedHaveEvents'
  <2> SUFFICES ASSUME NEW c \in Documents, Reached(c, "submitted")'
               PROVE  WasSubmitted(c)'
    BY DEF SubmittedHaveEvents
  <2>1. Reached(c, "submitted")
    <3>1. PICK i \in 1 .. Len(events'[c]) : events'[c][i].to = "submitted"
      BY DEF Reached
    <3>2. CASE c # d
      BY <1>8, <3>1, <3>2 DEF Reached
    <3>3. CASE c = d
      BY <1>5, <1>8, <3>1, <3>3 DEF Reached, n
    <3> QED
      BY <3>2, <3>3
  <2> QED
    BY <1>9, <2>1 DEF SystemInv, SubmittedHaveEvents
<1>22. TasksAreSound'
  <2> SUFFICES ASSUME NEW v \in Workers PROVE TaskIsSound(v)'
    BY DEF TasksAreSound
  <2>1. CASE v = w
    BY <1>2, <1>7, <2>1 DEF TaskIsSound
  <2>2. CASE v # w /\ task[v].pc \in {"loaded", "answered"}
    <3>1. TaskIsSound(v) /\ task'[v] = task[v]
      BY <1>7, <2>2 DEF SystemInv, TasksAreSound
    <3>2. PICK c \in Documents : c = DocOf(v)
      BY <2>2, <3>1 DEF TaskIsSound, DocOf, Message
    <3>3. /\ Reached(c, "submitted")
          /\ WasSigned(c)
          /\ row[c].signature # None
      BY <2>2, <3>1, <3>2 DEF TaskIsSound
    <3>4. /\ \E i \in 1 .. Len(events'[c]) : events'[c][i].to = "submitted"
          /\ WasSigned(c)'
          /\ row'[c].signature # None
      BY <1>3, <1>9, <1>10, <3>3
    <3> QED
      BY <2>2, <3>1, <3>2, <3>4 DEF TaskIsSound, DocOf, Reached, WasSigned
  <2>3. CASE v # w /\ task[v].pc \notin {"loaded", "answered"}
    <3>1. TaskIsSound(v) /\ task'[v] = task[v]
      BY <1>7, <2>3 DEF SystemInv, TasksAreSound
    <3> QED
      BY <2>3, <3>1 DEF TaskIsSound
  <2> QED
    BY <2>1, <2>2, <2>3
<1>23. DianGetsSubmittedDocuments'
  <2> SUFFICES ASSUME NEW c \in Documents, dian[c] # <<>>
               PROVE  \E i \in DOMAIN events'[c] :
                        events'[c][i].type = "submitted"
    BY <1>6 DEF DianGetsSubmittedDocuments
  <2>1. PICK i \in DOMAIN events[c] : events[c][i].type = "submitted"
    BY DEF SystemInv, DianGetsSubmittedDocuments
  <2>2. events[c] \in Seq(Event) /\ events'[c] \in Seq(Event)
    BY <1>1, <1>8 DEF TypeOK
  <2>3. WasSubmitted(c)'
    BY <1>9, <2>1, <2>2 DEF WasSubmitted
  <2> QED
    BY <2>2, <2>3 DEF WasSubmitted
<1> QED
  BY <1>19, <1>20, <1>21, <1>22, <1>23 DEF SystemInv

-----------------------------------------------------------------------------
(* The theorems *)

(* The initial states satisfy the inductive invariant.                     *)
LEMMA SystemInitially ==
  ASSUME WorkflowAssumption, SystemInit PROVE SystemInv
<1>1. WorkflowInv
  BY WorkflowInit DEF SystemInit
<1>2. /\ \A w \in Workers : task[w] = Free
      /\ \A d \in Documents : dian[d] = <<>> /\ events[d] = <<>>
  BY DEF SystemInit, Init
<1>3. SystemTypeOK
  <2>1. Free \in Task
    BY DEF Free, Task, Status
  <2>2. <<>> \in Seq(Submission)
    OBVIOUS
  <2> QED
    BY <1>1, <2>1, <2>2 DEF SystemInit, SystemTypeOK, WorkflowInv
<1>4. SubmittedHaveEvents
  BY <1>2, Len(<<>>) = 0 DEF SubmittedHaveEvents, Reached
<1>5. TasksAreSound
  BY <1>2 DEF TasksAreSound, TaskIsSound, Free
<1>6. DianGetsSubmittedDocuments
  BY <1>2 DEF DianGetsSubmittedDocuments
<1> QED
  BY <1>1, <1>3, <1>4, <1>5, <1>6 DEF SystemInv

(* Every step keeps the inductive invariant.                               *)
LEMMA SystemStep ==
  ASSUME WorkflowAssumption, SystemInv, [SystemNext]_systemVars
  PROVE  SystemInv'
<1>1. CASE Next /\ UNCHANGED taskVars
  BY <1>1, HandlerKeepsSystem
<1>2. ASSUME NEW w \in Workers, WorkerStep(w)
      PROVE  SystemInv'
  BY <1>2, QuietWorkerStep, ResponseStep
<1>3. CASE UNCHANGED systemVars
  <2>1. /\ UNCHANGED <<row, lines, events, xmlFile, lock, audit, req, crashes>>
        /\ broker' = broker
        /\ UNCHANGED <<task, dian, faults, timeouts>>
    BY <1>3 DEF systemVars, vars, taskVars
  <2>2. WorkflowInv'
    BY <2>1, HandlersUndisturbed DEF SystemInv, WorkflowInv, TypeOK
  <2>3. SystemTypeOK'
    BY <2>1, <2>2 DEF SystemInv, SystemTypeOK, WorkflowInv
  <2>4. SubmittedHaveEvents'
    BY <2>1 DEF SystemInv, SubmittedHaveEvents, Reached, WasSubmitted
  <2>5. TasksAreSound'
    BY <2>1 DEF SystemInv, TasksAreSound, TaskIsSound, DocOf, Reached, WasSigned
  <2>6. DianGetsSubmittedDocuments'
    BY <2>1 DEF SystemInv, DianGetsSubmittedDocuments
  <2> QED
    BY <2>2, <2>3, <2>4, <2>5, <2>6 DEF SystemInv
<1> QED
  BY <1>1, <1>2, <1>3, SystemNextIsStep

(* Beside any number of workers, redeliveries, retries, losses and time    *)
(* limits, what WorkflowInv says of rows, histories and requests stays     *)
(* true, and a worker that goes on holds a document that was submitted.    *)
THEOREM SystemInvariant == SystemSpec => []SystemInv
<1>1. SystemInit => SystemInv
  BY WorkflowAssumption, SystemInitially
<1>2. SystemInv /\ [SystemNext]_systemVars => SystemInv'
  BY WorkflowAssumption, SystemStep
<1> QED
  BY <1>1, <1>2, PTL DEF SystemSpec

(* The variables of the handlers and of the workers keep their types.      *)
THEOREM SystemTypes == SystemSpec => []SystemTypeOK
<1>1. SystemInv => SystemTypeOK
  BY DEF SystemInv
<1> QED
  BY <1>1, SystemInvariant, PTL

(* The DIAN only ever gets documents that were submitted.                  *)
THEOREM DianGetsSubmitted == SystemSpec => []DianGetsSubmittedDocuments
<1>1. SystemInv => DianGetsSubmittedDocuments
  BY DEF SystemInv
<1> QED
  BY <1>1, SystemInvariant, PTL

(* With the responses of the DIAN in it, a document's history is still a   *)
(* path: no response is recorded for what was never submitted.             *)
THEOREM SystemLogIsConnected == SystemSpec => []EventsAreConnected
<1>1. SystemInv => EventsAreConnected
  BY DEF SystemInv, WorkflowInv
<1> QED
  BY <1>1, SystemInvariant, PTL

(* And its row still has the status that its history ends with, although   *)
(* workers and requests overwrite each other's status.                     *)
THEOREM SystemLogEndsAtStatus == SystemSpec => []StatusIsLastEvent
<1>1. SystemInv => StatusIsLastEvent
  BY DEF SystemInv, WorkflowInv
<1> QED
  BY <1>1, SystemInvariant, PTL

-----------------------------------------------------------------------------
(* The responses are the answers of the DIAN *)

AnsweringFor(d, answer) ==
  {w \in Workers : /\ task[w].pc = "answered"
                   /\ DocOf(w) = d
                   /\ task[w].answer = answer}

(* An answer of the DIAN is recorded once, or still with a worker, or lost. *)
AnswersAreGiven ==
  \A d \in Documents, answer \in Answers :
    /\ IsFiniteSet(AnsweringFor(d, answer))
    /\ Cardinality(Recorded(d, answer)) + Cardinality(AnsweringFor(d, answer))
         <= Cardinality(Given(d, answer))

RowsShowResponses ==
  \A d \in Documents, answer \in Answers :
    answer # None /\ row[d].response = answer => Recorded(d, answer) # {}

ResponseInv == AnswersAreGiven /\ RowsShowResponses

(* A set of positions of a sequence is finite.                             *)
LEMMA PositionsAreFinite ==
  ASSUME NEW S, NEW s \in Seq(S), NEW P \in SUBSET DOMAIN s
  PROVE  IsFiniteSet(P) /\ Cardinality(P) \in Nat
<1>1. DOMAIN s = 1 .. Len(s) /\ Len(s) \in Nat
  OBVIOUS
<1>2. IsFiniteSet(1 .. Len(s))
  BY <1>1, FS_Interval
<1>3. IsFiniteSet(P)
  BY <1>1, <1>2, FS_Subset
<1> QED
  BY <1>3, FS_CardinalityType

(* A history records finitely many responses.                              *)
LEMMA RecordsAreFinite ==
  ASSUME SystemTypeOK, NEW d \in Documents, NEW answer \in Answers
  PROVE  /\ IsFiniteSet(Recorded(d, answer))
         /\ Cardinality(Recorded(d, answer)) \in Nat
         /\ IsFiniteSet(Given(d, answer))
         /\ Cardinality(Given(d, answer)) \in Nat
<1>1. events[d] \in Seq(Event) /\ dian[d] \in Seq(Submission)
  BY DEF SystemTypeOK, TypeOK
<1>2. Recorded(d, answer) \in SUBSET DOMAIN events[d]
  BY DEF Recorded, ResponseEvents
<1>3. Given(d, answer) \in SUBSET DOMAIN dian[d]
  BY DEF Given
<1> QED
  BY <1>1, <1>2, <1>3, PositionsAreFinite

(* Handlers record no response.                                            *)
LEMMA HandlersRecordNoResponse ==
  ASSUME WorkflowAssumption, TypeOK, RequestsHaveDocuments,
         NEW r \in Requests, Step(r), NEW c \in Documents
  PROVE  /\ ResponseEvents(c)' = ResponseEvents(c)
         /\ \A answer : Recorded(c, answer)' = Recorded(c, answer)
<1>1. CASE events' = events
  BY <1>1 DEF ResponseEvents, Recorded
<1>2. CASE events' # events
  <2>1. PICK d \in Documents, type \in DocumentEventType,
             from \in Status, to \in Status :
          /\ RecordEvent(d, type, from, to)
          /\ \/ Created(r, d, type, from, to)
             \/ Moved(r, d, type, from, to)
             \/ Queued(r, d, type, from, to)
    BY <1>2, DocumentStep
  <2>2. type # "dian_response"
    BY <2>1 DEF Created, Moved, Queued, Transition, Transitions,
                EventTypeForTransition, TransitionAction
  <2>3. /\ Len(events[d]) \in Nat
        /\ Len(events'[d]) = Len(events[d]) + 1
        /\ \A i \in 1 .. Len(events[d]) : events'[d][i] = events[d][i]
        /\ events'[d][Len(events[d]) + 1].type = type
        /\ \A e \in Documents : e # d => events'[e] = events[e]
    BY <2>1, NewEvent
  <2>4. /\ DOMAIN events[c] = 1 .. Len(events[c])
        /\ DOMAIN events'[c] = 1 .. Len(events'[c])
    <3>1. events[c] \in Seq(Event) /\ events'[c] \in Seq(Event)
      BY <2>1, RecordEventType DEF TypeOK
    <3> QED
      BY <3>1
  <2>5. ResponseEvents(c)' = ResponseEvents(c)
    <3>1. CASE c = d
      BY <2>2, <2>3, <2>4, <3>1 DEF ResponseEvents
    <3>2. CASE c # d
      BY <2>3, <3>2 DEF ResponseEvents
    <3> QED
      BY <3>1, <3>2
  <2>6. \A i \in ResponseEvents(c) : events'[c][i] = events[c][i]
    BY <2>3, <2>4 DEF ResponseEvents
  <2> QED
    BY <2>5, <2>6 DEF Recorded
<1> QED
  BY <1>1, <1>2

(* Handlers write no response: a new row has none.                         *)
LEMMA HandlersWriteNoResponse ==
  ASSUME WorkflowAssumption, TypeOK, RequestsHaveDocuments,
         NEW r \in Requests, Step(r), NEW c \in Documents
  PROVE  row'[c].response \in {row[c].response, None}
<1>1. row[c] \in Row
  BY DEF TypeOK
<1>2. ASSUME NEW d \in Documents, NEW reference, InsertDocument(r, d, reference)
      PROVE  row'[c].response \in {row[c].response, None}
  BY <1>1, <1>2 DEF InsertDocument, NoRow, TypeOK
<1>3. CASE CreateInvoice(r)
  BY <1>2, <1>3 DEF CreateInvoice, DocumentsOf
<1>4. CASE \E type \in {"credit_note", "debit_note"} : CommitCreateNote(r, type)
  BY <1>2, <1>4 DEF CommitCreateNote, DocumentsOf
<1>5. CASE CommitUpdate(r)
  BY <1>1, <1>5 DEF CommitUpdate, TypeOK, Row
<1>6. CASE CommitTransition(r)
  BY <1>1, <1>6 DEF CommitTransition, TypeOK, Row
<1> QED
  BY <1>3, <1>4, <1>5, <1>6
  DEF Step, BeginCreateNote, BeginUpdate, FlushHeader, ReadExistingLines,
      RefuseLines, BeginTransition, ReadLinesToSign, SaveXml, BeginQueue,
      PublishTask, CommitQueued, WriteAudit, Crash

(* A handler changes neither side of the count.                            *)
LEMMA HandlerKeepsResponses ==
  ASSUME WorkflowAssumption, SystemInv, ResponseInv, Next, UNCHANGED taskVars
  PROVE  ResponseInv'
<1>1. PICK r \in Requests : Step(r)
  BY NextIsStep
<1>2. task' = task /\ dian' = dian
  BY DEF taskVars
<1>3. ASSUME NEW c \in Documents, NEW answer
      PROVE  /\ Recorded(c, answer)' = Recorded(c, answer)
             /\ Given(c, answer)' = Given(c, answer)
             /\ AnsweringFor(c, answer)' = AnsweringFor(c, answer)
  <2>1. Recorded(c, answer)' = Recorded(c, answer)
    BY <1>1, HandlersRecordNoResponse DEF SystemInv, WorkflowInv
  <2> QED
    BY <1>2, <2>1 DEF Given, AnsweringFor, DocOf
<1>4. AnswersAreGiven'
  BY <1>3 DEF ResponseInv, AnswersAreGiven
<1>5. RowsShowResponses'
  <2> SUFFICES ASSUME NEW c \in Documents, NEW answer \in Answers,
                      answer # None, row'[c].response = answer
               PROVE  Recorded(c, answer)' # {}
    BY DEF RowsShowResponses
  <2>1. row[c].response = answer
    BY <1>1, HandlersWriteNoResponse DEF SystemInv, WorkflowInv
  <2> QED
    BY <1>3, <2>1 DEF ResponseInv, RowsShowResponses
<1> QED
  BY <1>4, <1>5 DEF ResponseInv

(* The answer of the DIAN is given, and now with the worker.               *)
LEMMA AnswerIsGiven ==
  ASSUME SystemInv, ResponseInv, NEW w \in Workers, SubmitDocument(w)
  PROVE  ResponseInv'
<1>1. /\ SystemTypeOK
      /\ task[w] \in Task
      /\ task[w].pc = "loaded"
      /\ DocOf(w) \in Documents
  BY DEF SystemInv, SystemTypeOK, TasksAreSound, TaskIsSound, SubmitDocument,
         DocOf, Message
<1>2. PICK d \in Documents : d = DocOf(w)
  BY <1>1
<1>3. PICK answer \in Answers :
        /\ dian' = [dian EXCEPT ![d] =
                      Append(@, [xml |-> xmlFile[d], answer |-> answer])]
        /\ task' = [task EXCEPT ![w].pc = "answered", ![w].answer = answer]
  BY <1>2 DEF SubmitDocument
<1>4. UNCHANGED <<row, events>>
  BY DEF SubmitDocument, vars
<1>5. /\ task'[w].pc = "answered"
      /\ task'[w].msg = task[w].msg
      /\ task'[w].answer = answer
      /\ \A v \in Workers : v # w => task'[v] = task[v]
  BY <1>1, <1>3 DEF SystemTypeOK, Task
<1> DEFINE n == Len(dian[d])
<1>6. /\ n \in Nat
      /\ DOMAIN dian[d] = 1 .. n
      /\ DOMAIN dian'[d] = 1 .. n + 1
      /\ \A i \in 1 .. n : dian'[d][i] = dian[d][i]
      /\ dian'[d][n + 1].answer = answer
      /\ \A c \in Documents : c # d => dian'[c] = dian[c]
  <2> DEFINE sent == [xml |-> xmlFile[d], answer |-> answer]
  <2>1. sent.answer = answer
    OBVIOUS
  <2>2. dian[d] \in Seq(Submission) /\ sent \in Submission
    BY <1>1, <1>2 DEF SystemTypeOK, TypeOK, Submission
  <2>3. /\ dian'[d] = Append(dian[d], sent)
        /\ \A c \in Documents : c # d => dian'[c] = dian[c]
    BY <1>1, <1>3 DEF SystemTypeOK
  <2> HIDE DEF sent
  <2> QED
    BY <2>1, <2>2, <2>3
<1>7. ASSUME NEW c \in Documents, NEW a \in Answers
      PROVE  /\ IsFiniteSet(AnsweringFor(c, a)')
             /\ Cardinality(Recorded(c, a)') + Cardinality(AnsweringFor(c, a)')
                  <= Cardinality(Given(c, a)')
  <2>1. /\ IsFiniteSet(AnsweringFor(c, a))
        /\ Cardinality(AnsweringFor(c, a)) \in Nat
        /\ Cardinality(Recorded(c, a)) + Cardinality(AnsweringFor(c, a))
             <= Cardinality(Given(c, a))
    BY FS_CardinalityType DEF ResponseInv, AnswersAreGiven
  <2>2. /\ IsFiniteSet(Given(c, a))
        /\ Cardinality(Given(c, a)) \in Nat
        /\ Cardinality(Recorded(c, a)) \in Nat
    BY <1>1, RecordsAreFinite
  <2>3. Recorded(c, a)' = Recorded(c, a)
    BY <1>4 DEF Recorded, ResponseEvents
  <2>4. CASE c = d /\ a = answer
    <3>1. AnsweringFor(c, a)' = AnsweringFor(c, a) \cup {w}
      BY <1>2, <1>5, <2>4 DEF AnsweringFor, DocOf
    <3>2. w \notin AnsweringFor(c, a)
      BY <1>1 DEF AnsweringFor
    <3>3. Given(c, a)' = Given(c, a) \cup {n + 1} /\ n + 1 \notin Given(c, a)
      <4> HIDE DEF n
      <4> QED
        BY <1>6, <2>4 DEF Given
    <3>4. /\ IsFiniteSet(AnsweringFor(c, a) \cup {w})
          /\ Cardinality(AnsweringFor(c, a) \cup {w}) =
               Cardinality(AnsweringFor(c, a)) + 1
      BY <2>1, <3>2, FS_AddElement
    <3>5. Cardinality(Given(c, a) \cup {n + 1}) = Cardinality(Given(c, a)) + 1
      BY <2>2, <3>3, FS_AddElement
    <3> QED
      BY <2>1, <2>2, <2>3, <3>1, <3>3, <3>4, <3>5
  <2>5. CASE ~(c = d /\ a = answer)
    <3>1. AnsweringFor(c, a)' = AnsweringFor(c, a)
      BY <1>1, <1>2, <1>5, <2>5 DEF AnsweringFor, DocOf
    <3>2. Given(c, a)' = Given(c, a)
      <4> HIDE DEF n
      <4> QED
        BY <1>6, <2>5 DEF Given
    <3> QED
      BY <2>1, <2>3, <3>1, <3>2
  <2> QED
    BY <2>4, <2>5
<1>8. AnswersAreGiven'
  BY <1>7 DEF AnswersAreGiven
<1>9. RowsShowResponses'
  BY <1>4 DEF ResponseInv, RowsShowResponses, Recorded, ResponseEvents
<1> QED
  BY <1>8, <1>9 DEF ResponseInv

(* The answer leaves the worker for the history and the row.               *)
LEMMA AnswerIsRecorded ==
  ASSUME SystemInv, ResponseInv, NEW w \in Workers, RecordResponse(w)
  PROVE  ResponseInv'
<1>1. /\ SystemTypeOK
      /\ TypeOK
      /\ task[w] \in Task
      /\ task[w].pc = "answered"
      /\ task[w].status = "submitted"
      /\ task[w].answer \in Answers
      /\ DocOf(w) \in Documents
  BY DEF SystemInv, SystemTypeOK, TasksAreSound, TaskIsSound, RecordResponse,
         DocOf, Message
<1>2. PICK d \in Documents : d = DocOf(w)
  BY <1>1
<1>3. PICK answer \in Answers : answer = task[w].answer
  BY <1>1
<1>4. /\ row' = [row EXCEPT ![d].status = answer, ![d].response = answer]
      /\ RecordEvent(d, "dian_response", "submitted", answer)
      /\ task' = [task EXCEPT ![w].pc = "recorded"]
      /\ dian' = dian
  BY <1>1, <1>2, <1>3 DEF RecordResponse
<1>5. /\ task'[w].pc = "recorded"
      /\ \A v \in Workers : v # w => task'[v] = task[v]
  BY <1>1, <1>4 DEF SystemTypeOK, Task
<1>6. /\ row'[d].response = answer
      /\ \A c \in Documents : c # d => row'[c] = row[c]
  BY <1>1, <1>4, ResponseRow
<1> DEFINE n == Len(events[d])
<1>7. /\ n \in Nat
      /\ DOMAIN events[d] = 1 .. n
      /\ DOMAIN events'[d] = 1 .. n + 1
      /\ \A i \in 1 .. n : events'[d][i] = events[d][i]
      /\ events'[d][n + 1].type = "dian_response"
      /\ events'[d][n + 1].to = answer
      /\ \A c \in Documents : c # d => events'[c] = events[c]
  <2>1. /\ "dian_response" \in DocumentEventType
        /\ "submitted" \in Status
        /\ answer \in Status
    BY DEF DocumentEventType, Status, DocumentStatus, Answers
  <2>2. events[d] \in Seq(Event) /\ events'[d] \in Seq(Event)
    BY <1>1, <1>4, <2>1, RecordEventType DEF TypeOK
  <2> QED
    BY <1>1, <1>4, <2>1, <2>2, NewEvent
<1>8. ASSUME NEW c \in Documents, NEW a, ~(c = d /\ a = answer)
      PROVE  Recorded(c, a)' = Recorded(c, a)
  <2> HIDE DEF n
  <2> QED
    BY <1>7, <1>8 DEF Recorded, ResponseEvents
<1>9. /\ Recorded(d, answer)' = Recorded(d, answer) \cup {n + 1}
      /\ n + 1 \notin Recorded(d, answer)
  <2> HIDE DEF n
  <2> QED
    BY <1>7 DEF Recorded, ResponseEvents
<1>10. ASSUME NEW c \in Documents, NEW a \in Answers
       PROVE  /\ IsFiniteSet(AnsweringFor(c, a)')
              /\ Cardinality(Recorded(c, a)')
                    + Cardinality(AnsweringFor(c, a)')
                  <= Cardinality(Given(c, a)')
  <2>1. /\ IsFiniteSet(AnsweringFor(c, a))
        /\ Cardinality(AnsweringFor(c, a)) \in Nat
        /\ Cardinality(Recorded(c, a)) + Cardinality(AnsweringFor(c, a))
             <= Cardinality(Given(c, a))
    BY FS_CardinalityType DEF ResponseInv, AnswersAreGiven
  <2>2. /\ IsFiniteSet(Recorded(c, a))
        /\ Cardinality(Recorded(c, a)) \in Nat
        /\ Cardinality(Given(c, a)) \in Nat
    BY <1>1, RecordsAreFinite
  <2>3. Given(c, a)' = Given(c, a)
    BY <1>4 DEF Given
  <2>4. CASE c = d /\ a = answer
    <3>1. AnsweringFor(c, a)' = AnsweringFor(c, a) \ {w}
      BY <1>5 DEF AnsweringFor, DocOf
    <3>2. w \in AnsweringFor(c, a)
      BY <1>1, <1>2, <1>3, <2>4 DEF AnsweringFor
    <3>3. /\ IsFiniteSet(AnsweringFor(c, a) \ {w})
          /\ Cardinality(AnsweringFor(c, a) \ {w}) =
               Cardinality(AnsweringFor(c, a)) - 1
      BY <2>1, <3>2, FS_RemoveElement
    <3>4. Cardinality(Recorded(c, a) \cup {n + 1}) =
            Cardinality(Recorded(c, a)) + 1
      BY <1>9, <2>2, <2>4, FS_AddElement
    <3>5. Recorded(c, a)' = Recorded(c, a) \cup {n + 1}
      BY <1>9, <2>4
    <3> HIDE DEF n
    <3>6. Cardinality(Recorded(c, a)') = Cardinality(Recorded(c, a)) + 1
      BY <3>4, <3>5
    <3>7. /\ IsFiniteSet(AnsweringFor(c, a)')
          /\ Cardinality(AnsweringFor(c, a)') =
               Cardinality(AnsweringFor(c, a)) - 1
      BY <3>1, <3>3
    <3> QED
      BY <2>1, <2>2, <2>3, <3>6, <3>7
  <2>5. CASE ~(c = d /\ a = answer)
    <3>1. AnsweringFor(c, a)' = AnsweringFor(c, a)
      BY <1>2, <1>3, <1>5, <2>5 DEF AnsweringFor, DocOf
    <3> QED
      BY <1>8, <2>1, <2>3, <2>5, <3>1
  <2> QED
    BY <2>4, <2>5
<1>11. AnswersAreGiven'
  BY <1>10 DEF AnswersAreGiven
<1>12. RowsShowResponses'
  <2> SUFFICES ASSUME NEW c \in Documents, NEW a \in Answers,
                      a # None, row'[c].response = a
               PROVE  Recorded(c, a)' # {}
    BY DEF RowsShowResponses
  <2>1. CASE c = d
    <3>1. a = answer
      BY <1>6, <2>1
    <3> QED
      BY <1>9, <2>1, <3>1
  <2>2. CASE c # d
    <3>1. row[c].response = a /\ Recorded(c, a)' = Recorded(c, a)
      BY <1>6, <1>8, <2>2
    <3> QED
      BY <3>1 DEF ResponseInv, RowsShowResponses
  <2> QED
    BY <2>1, <2>2
<1> QED
  BY <1>11, <1>12 DEF ResponseInv

(* The other steps of a worker at most lose an answer.                     *)
LEMMA AnswersMayBeLost ==
  ASSUME SystemInv, ResponseInv, NEW w \in Workers, WorkerStep(w),
         ~SubmitDocument(w), ~RecordResponse(w)
  PROVE  ResponseInv'
<1>1. UNCHANGED <<row, events, dian>>
  BY DEF WorkerStep, TakeTask, LoadDocument, Acknowledge, Retry, WorkerLost,
         TimeLimit, vars
<1>2. /\ task'[w].pc # "answered"
      /\ \A v \in Workers : v # w => task'[v] = task[v]
  <2>1. task \in [Workers -> Task] /\ task[w] \in Task /\ Free.pc = "free"
    BY DEF SystemInv, SystemTypeOK, Free
  <2>2. CASE TakeTask(w)
    BY <2>1, <2>2 DEF TakeTask, Free
  <2>3. CASE LoadDocument(w)
    BY <2>1, <2>3 DEF LoadDocument, Task
  <2>4. CASE Acknowledge(w) \/ Retry(w) \/ WorkerLost(w) \/ TimeLimit(w)
    BY <2>1, <2>4 DEF Acknowledge, Retry, WorkerLost, TimeLimit
  <2> QED
    BY <2>2, <2>3, <2>4 DEF WorkerStep
<1>3. ASSUME NEW c \in Documents, NEW a \in Answers
      PROVE  /\ IsFiniteSet(AnsweringFor(c, a)')
             /\ Cardinality(Recorded(c, a)') + Cardinality(AnsweringFor(c, a)')
                  <= Cardinality(Given(c, a)')
  <2>1. /\ IsFiniteSet(AnsweringFor(c, a))
        /\ Cardinality(AnsweringFor(c, a)) \in Nat
        /\ Cardinality(Recorded(c, a)) + Cardinality(AnsweringFor(c, a))
             <= Cardinality(Given(c, a))
    BY FS_CardinalityType DEF ResponseInv, AnswersAreGiven
  <2>2. AnsweringFor(c, a)' \subseteq AnsweringFor(c, a)
    BY <1>2 DEF AnsweringFor, DocOf
  <2>3. /\ IsFiniteSet(AnsweringFor(c, a)')
        /\ Cardinality(AnsweringFor(c, a)') <= Cardinality(AnsweringFor(c, a))
    BY <2>1, <2>2, FS_Subset
  <2>4. Cardinality(AnsweringFor(c, a)') \in Nat
    BY <2>3, FS_CardinalityType
  <2>5. /\ Recorded(c, a)' = Recorded(c, a)
        /\ Given(c, a)' = Given(c, a)
    BY <1>1 DEF Recorded, ResponseEvents, Given
  <2>6. /\ Cardinality(Recorded(c, a)) \in Nat
        /\ Cardinality(Given(c, a)) \in Nat
    BY RecordsAreFinite DEF SystemInv
  <2> QED
    BY <2>1, <2>3, <2>4, <2>5, <2>6
<1>4. AnswersAreGiven'
  BY <1>3 DEF AnswersAreGiven
<1>5. RowsShowResponses'
  BY <1>1 DEF ResponseInv, RowsShowResponses, Recorded, ResponseEvents
<1> QED
  BY <1>4, <1>5 DEF ResponseInv

(* Nothing was asked of the DIAN yet.                                      *)
LEMMA ResponsesInitially ==
  ASSUME WorkflowAssumption, SystemInit PROVE ResponseInv
<1>1. /\ \A w \in Workers : task[w].pc = "free"
      /\ \A d \in Documents : /\ dian[d] = <<>>
                              /\ events[d] = <<>>
                              /\ row[d].response = None
  BY DEF SystemInit, Init, Free, NoRow
<1>2. ASSUME NEW d \in Documents, NEW answer
      PROVE  /\ Recorded(d, answer) = {}
             /\ Given(d, answer) = {}
             /\ AnsweringFor(d, answer) = {}
  BY <1>1 DEF Recorded, ResponseEvents, Given, AnsweringFor
<1>3. IsFiniteSet({}) /\ Cardinality({}) = 0
  BY FS_EmptySet
<1>4. AnswersAreGiven
  <2> SUFFICES ASSUME NEW d \in Documents, NEW answer \in Answers
               PROVE  /\ IsFiniteSet({})
                      /\ Cardinality({}) + Cardinality({}) <= Cardinality({})
    BY <1>2 DEF AnswersAreGiven
  <2> QED
    BY <1>3
<1> QED
  BY <1>1, <1>4 DEF ResponseInv, RowsShowResponses

(* However many workers, redeliveries, lost answers and overwritten        *)
(* statuses: each recorded response is one that the DIAN gave, and none is *)
(* recorded twice.                                                         *)
THEOREM ResponsesGiven == SystemSpec => []ResponsesWereGiven
<1>1. SystemInit => ResponseInv
  BY WorkflowAssumption, ResponsesInitially
<1>2. SystemInv /\ ResponseInv /\ [SystemNext]_systemVars => ResponseInv'
  <2> SUFFICES ASSUME SystemInv, ResponseInv, [SystemNext]_systemVars
               PROVE  ResponseInv'
    OBVIOUS
  <2>1. CASE Next /\ UNCHANGED taskVars
    BY <2>1, WorkflowAssumption, HandlerKeepsResponses
  <2>2. ASSUME NEW w \in Workers, WorkerStep(w)
        PROVE  ResponseInv'
    BY <2>2, AnswerIsGiven, AnswerIsRecorded, AnswersMayBeLost
  <2>3. CASE UNCHANGED systemVars
    BY <2>3 DEF systemVars, vars, taskVars, ResponseInv, AnswersAreGiven,
       RowsShowResponses, Recorded, ResponseEvents, Given, AnsweringFor, DocOf
  <2> QED
    BY <2>1, <2>2, <2>3, SystemNextIsStep
<1>3. SystemInv /\ ResponseInv => ResponsesWereGiven
  <2> SUFFICES ASSUME SystemInv, ResponseInv PROVE ResponsesWereGiven
    OBVIOUS
  <2>1. ASSUME NEW d \in Documents, NEW answer \in Answers
        PROVE  Cardinality(Recorded(d, answer)) <= Cardinality(Given(d, answer))
    <3>1. /\ Cardinality(AnsweringFor(d, answer)) \in Nat
          /\ Cardinality(Recorded(d, answer))
                + Cardinality(AnsweringFor(d, answer))
               <= Cardinality(Given(d, answer))
      BY FS_CardinalityType DEF ResponseInv, AnswersAreGiven
    <3>2. /\ Cardinality(Recorded(d, answer)) \in Nat
          /\ Cardinality(Given(d, answer)) \in Nat
      BY RecordsAreFinite DEF SystemInv
    <3> QED
      BY <3>1, <3>2
  <2>2. ASSUME NEW d \in Documents, row[d].response # None
        PROVE  Recorded(d, row[d].response) # {}
    <3>1. row[d].response \in Answers
      BY <2>2 DEF SystemInv, SystemTypeOK, TypeOK, Row, Answers
    <3> QED
      BY <2>2, <3>1 DEF ResponseInv, RowsShowResponses
  <2> QED
    BY <2>1, <2>2 DEF ResponsesWereGiven
<1> QED
  BY <1>1, <1>2, <1>3, SystemInvariant, PTL DEF SystemSpec

-----------------------------------------------------------------------------
(* One worker and one request at a time record one response *)

Answerable == {"submitted"} \cup Answers

(* A document with a response stays answered.                              *)
AnsweredStay ==
  \A d \in Documents : ResponseEvents(d) # {} => row[d].status \in Answers

(* The document a worker goes on with has no response yet, and has not     *)
(* left the statuses that lead to one.                                     *)
WorkersAreFirst ==
  \A w \in Workers : task[w].pc \in {"loaded", "answered"} =>
    /\ ResponseEvents(DocOf(w)) = {}
    /\ row[DocOf(w)].status \in Answerable

(* A worker overtakes a request only by answering what was submitted.      *)
RequestsFollow ==
  \A r \in Requests : req[r].pc \in Deciding =>
    \/ req[r].status = row[req[r].doc].status
    \/ req[r].status \in Answerable /\ row[req[r].doc].status \in Answers

ResponsesAreUnique ==
  \A d \in Documents : \A i, j \in ResponseEvents(d) : i = j

FirstResponseInv ==
  /\ OneAtATime
  /\ AnsweredStay
  /\ WorkersAreFirst
  /\ RequestsFollow
  /\ ResponsesAreUnique

(* How a handler changes a status: by the transition from what it read.    *)
LEMMA HandlerMovesStatus ==
  ASSUME WorkflowAssumption, TypeOK, RequestsHaveDocuments,
         NEW r \in Requests, Step(r), NEW c \in Documents,
         row'[c].status # row[c].status
  PROVE  \/ row[c].status = "absent"
         \/ /\ req[r].pc \in Deciding
            /\ req[r].doc = c
            /\ Transition(req[r].status, req[r].op, row'[c].status)
<1>1. PICK d \in Documents, type \in DocumentEventType,
           from \in Status, to \in Status :
        /\ RecordEvent(d, type, from, to)
        /\ \A b \in Documents : b # d => SameProgress(b)
        /\ \/ Created(r, d, type, from, to)
           \/ Moved(r, d, type, from, to)
           \/ Queued(r, d, type, from, to)
  BY DocumentStep DEF SameProgress
<1> QED
  BY <1>1 DEF SameProgress, Created, Moved, Queued

(* A handler leaves answered documents answered, as it decided on a status *)
(* that was no other than theirs.                                          *)
LEMMA HandlerKeepsFirst ==
  ASSUME WorkflowAssumption, MaxInFlight = 1, SystemInv, FirstResponseInv,
         Next, UNCHANGED taskVars
  PROVE  FirstResponseInv'
<1>1. PICK r \in Requests : Step(r)
  BY NextIsStep
<1>2. /\ TypeOK
      /\ RequestsHaveDocuments
      /\ task \in [Workers -> Task]
  BY DEF SystemInv, WorkflowInv, SystemTypeOK
<1>3. task' = task
  BY DEF taskVars
<1>4. \A c \in Documents : ResponseEvents(c)' = ResponseEvents(c)
  BY <1>1, <1>2, HandlersRecordNoResponse
<1>5. ASSUME NEW c \in Documents, row[c].status \in Answerable
      PROVE  /\ row'[c].status \in Answerable
             /\ row[c].status \in Answers => row'[c].status \in Answers
  <2>1. CASE row'[c].status = row[c].status
    BY <1>5, <2>1
  <2>2. CASE row'[c].status # row[c].status
    <3>1. /\ req[r].pc \in Deciding
          /\ req[r].doc = c
          /\ Transition(req[r].status, req[r].op, row'[c].status)
      BY <1>1, <1>2, <1>5, <2>2, HandlerMovesStatus DEF Answerable, Answers
    <3>2. req[r].status \in Answerable
      BY <1>5, <3>1 DEF FirstResponseInv, RequestsFollow
    <3>3. row'[c].status \in Answers
      BY <3>1, <3>2 DEF Answerable, Answers, Transition, Transitions
    <3> QED
      BY <3>3 DEF Answerable
  <2> QED
    BY <2>1, <2>2
<1>6. OneAtATime' /\ \A q \in Requests : q # r => req'[q].pc \notin Working
  BY <1>1, <1>2, OneAtATimeStep DEF FirstResponseInv
<1>7. AnsweredStay'
  BY <1>4, <1>5 DEF FirstResponseInv, AnsweredStay, Answerable
<1>8. WorkersAreFirst'
  <2> SUFFICES ASSUME NEW w \in Workers, task[w].pc \in {"loaded", "answered"}
               PROVE  /\ ResponseEvents(DocOf(w))' = {}
                      /\ row'[DocOf(w)].status \in Answerable
    BY <1>3 DEF WorkersAreFirst, DocOf, ResponseEvents
  <2>1. PICK c \in Documents : c = DocOf(w)
    BY DEF SystemInv, TasksAreSound, TaskIsSound, DocOf, Message
  <2>2. ResponseEvents(c) = {} /\ row[c].status \in Answerable
    BY <2>1 DEF FirstResponseInv, WorkersAreFirst
  <2>3. ResponseEvents(c)' = {} /\ row'[c].status \in Answerable
    BY <1>4, <1>5, <2>2
  <2> QED
    BY <1>3, <2>1, <2>3 DEF ResponseEvents, DocOf
<1>9. RequestsFollow'
  <2> SUFFICES ASSUME req'[r].pc \in Deciding
               PROVE  \/ req'[r].status = row'[req'[r].doc].status
                      \/ /\ req'[r].status \in Answerable
                         /\ row'[req'[r].doc].status \in Answers
    BY <1>6 DEF RequestsFollow, Deciding
  <2>1. \/ /\ req'[r].status = row[req'[r].doc].status
           /\ row' = row
        \/ /\ req[r].pc \in Deciding
           /\ req'[r].doc = req[r].doc
           /\ req'[r].status = req[r].status
           /\ row' = row
    BY <1>1, <1>2, RequestStep DEF Deciding, Finished, Working
  <2> QED
    BY <2>1 DEF FirstResponseInv, RequestsFollow
<1>10. ResponsesAreUnique'
  BY <1>4 DEF FirstResponseInv, ResponsesAreUnique
<1> QED
  BY <1>6, <1>7, <1>8, <1>9, <1>10 DEF FirstResponseInv

(* A worker that records no response at most finds a document submitted.   *)
LEMMA QuietWorkerIsFirst ==
  ASSUME SystemInv, FirstResponseInv, NEW w \in Workers, WorkerStep(w),
         ~RecordResponse(w)
  PROVE  FirstResponseInv'
<1>1. UNCHANGED <<row, events, req>>
  BY DEF WorkerStep, TakeTask, LoadDocument, SubmitDocument, Acknowledge,
         Retry, WorkerLost, TimeLimit, vars
<1>2. task \in [Workers -> Task] /\ task[w] \in Task /\ TaskIsSound(w)
  BY DEF SystemInv, SystemTypeOK, TasksAreSound
<1>3. /\ \A v \in Workers : v # w => task'[v] = task[v]
      /\ \/ task'[w].pc \notin {"loaded", "answered"}
         \/ /\ task[w].pc \in {"taken", "loaded"}
            /\ task'[w].msg = task[w].msg
            /\ task[w].pc = "loaded" \/ row[DocOf(w)].status = "submitted"
  <2>1. Free.pc = "free"
    BY DEF Free
  <2>2. CASE TakeTask(w)
    BY <1>2, <2>2 DEF TakeTask, Free
  <2>3. CASE LoadDocument(w)
    BY <1>2, <2>3 DEF LoadDocument, Task
  <2>4. CASE SubmitDocument(w)
    BY <1>2, <2>4 DEF SubmitDocument, Task
  <2>5. CASE Acknowledge(w) \/ Retry(w) \/ WorkerLost(w) \/ TimeLimit(w)
    BY <1>2, <2>1, <2>5 DEF Acknowledge, Retry, WorkerLost, TimeLimit
  <2> QED
    BY <2>2, <2>3, <2>4, <2>5 DEF WorkerStep
<1>4. OneAtATime' /\ AnsweredStay' /\ RequestsFollow' /\ ResponsesAreUnique'
  BY <1>1 DEF FirstResponseInv, OneAtATime, AnsweredStay, RequestsFollow,
              ResponsesAreUnique, ResponseEvents
<1>5. WorkersAreFirst'
  <2> SUFFICES ASSUME NEW v \in Workers, task'[v].pc \in {"loaded", "answered"}
               PROVE  /\ ResponseEvents(task'[v].msg.doc) = {}
                      /\ row[task'[v].msg.doc].status \in Answerable
    BY <1>1 DEF WorkersAreFirst, DocOf, ResponseEvents
  <2>1. CASE v # w \/ task[w].pc = "loaded"
    BY <1>3, <2>1 DEF FirstResponseInv, WorkersAreFirst, DocOf
  <2>2. CASE v = w /\ task[w].pc # "loaded"
    <3>1. PICK d \in Documents : d = DocOf(w)
      BY <1>2, <1>3, <2>2 DEF TaskIsSound, DocOf, Message
    <3>2. task'[v].msg.doc = d /\ row[d].status = "submitted"
      BY <1>3, <2>2, <3>1 DEF DocOf
    <3>3. ResponseEvents(d) = {}
      BY <3>2 DEF FirstResponseInv, AnsweredStay, Answers
    <3> QED
      BY <3>2, <3>3 DEF Answerable
  <2> QED
    BY <2>1, <2>2
<1> QED
  BY <1>4, <1>5 DEF FirstResponseInv

(* The one worker that records a response is the first for its document.   *)
LEMMA FirstResponse ==
  ASSUME SystemInv, FirstResponseInv, \A v, w \in Workers : v = w,
         NEW w \in Workers, RecordResponse(w)
  PROVE  FirstResponseInv'
<1>1. /\ TypeOK
      /\ task \in [Workers -> Task]
      /\ task[w].pc = "answered"
      /\ task[w].status = "submitted"
      /\ task[w].answer \in Answers
      /\ DocOf(w) \in Documents
  BY DEF SystemInv, SystemTypeOK, TasksAreSound, TaskIsSound, RecordResponse,
         DocOf, Message
<1>2. PICK d \in Documents : d = DocOf(w)
  BY <1>1
<1>3. PICK answer \in Answers : answer = task[w].answer
  BY <1>1
<1>4. /\ row' = [row EXCEPT ![d].status = answer, ![d].response = answer]
      /\ RecordEvent(d, "dian_response", "submitted", answer)
      /\ task' = [task EXCEPT ![w].pc = "recorded"]
      /\ req' = req
  BY <1>1, <1>2, <1>3 DEF RecordResponse
<1>5. task'[w].pc = "recorded"
  BY <1>1, <1>4 DEF Task
<1>6. /\ row'[d].status = answer
      /\ \A c \in Documents : c # d => row'[c] = row[c]
  BY <1>1, <1>4, ResponseRow
<1>7. ResponseEvents(d) = {} /\ row[d].status \in Answerable
  BY <1>1, <1>2 DEF FirstResponseInv, WorkersAreFirst
<1> DEFINE n == Len(events[d])
<1>8. /\ n \in Nat
      /\ DOMAIN events[d] = 1 .. n
      /\ DOMAIN events'[d] = 1 .. n + 1
      /\ \A i \in 1 .. n : events'[d][i] = events[d][i]
      /\ \A c \in Documents : c # d => events'[c] = events[c]
  <2>1. /\ "dian_response" \in DocumentEventType
        /\ "submitted" \in Status
        /\ answer \in Status
    BY DEF DocumentEventType, Status, DocumentStatus, Answers
  <2>2. events[d] \in Seq(Event) /\ events'[d] \in Seq(Event)
    BY <1>1, <1>4, <2>1, RecordEventType DEF TypeOK
  <2> QED
    BY <1>1, <1>4, <2>1, <2>2, NewEvent
<1>9. /\ ResponseEvents(d)' \subseteq {n + 1}
      /\ \A c \in Documents : c # d => ResponseEvents(c)' = ResponseEvents(c)
  <2> HIDE DEF n
  <2> QED
    BY <1>7, <1>8 DEF ResponseEvents
<1> HIDE DEF n
<1>10. OneAtATime'
  BY <1>4 DEF FirstResponseInv, OneAtATime
<1>11. AnsweredStay'
  BY <1>6, <1>9 DEF FirstResponseInv, AnsweredStay
<1>12. WorkersAreFirst'
  BY <1>5 DEF WorkersAreFirst
<1>13. RequestsFollow'
  <2> SUFFICES ASSUME NEW r \in Requests, req[r].pc \in Deciding
               PROVE  \/ req[r].status = row'[req[r].doc].status
                      \/ /\ req[r].status \in Answerable
                         /\ row'[req[r].doc].status \in Answers
    BY <1>4 DEF RequestsFollow
  <2>1. PICK c \in Documents : c = req[r].doc
    BY DEF SystemInv, WorkflowInv, RequestsHaveDocuments, Deciding
  <2> QED
    BY <1>6, <1>7, <2>1 DEF FirstResponseInv, RequestsFollow
<1>14. ResponsesAreUnique'
  BY <1>9 DEF FirstResponseInv, ResponsesAreUnique
<1> QED
  BY <1>10, <1>11, <1>12, <1>13, <1>14 DEF FirstResponseInv

(* With one worker (--concurrency=1) and requests that do not overlap, a   *)
(* document gets one response, however often its task is redelivered,      *)
(* retried or killed, and whatever transitions the API is asked for.       *)
THEOREM OneResponse ==
  ASSUME MaxInFlight = 1, \A v, w \in Workers : v = w
  PROVE  SystemSpec => []OneResponsePerDocument
<1>1. SystemInit => FirstResponseInv
  <2> SUFFICES ASSUME SystemInit PROVE FirstResponseInv
    OBVIOUS
  <2>1. /\ \A w \in Workers : task[w].pc = "free"
        /\ \A r \in Requests : req[r].pc = "idle"
        /\ \A d \in Documents : events[d] = <<>>
    BY DEF SystemInit, Init, Free, Idle
  <2>2. \A d \in Documents : ResponseEvents(d) = {}
    BY <2>1 DEF ResponseEvents
  <2> QED
    BY <2>1, <2>2 DEF FirstResponseInv, OneAtATime, AnsweredStay,
       WorkersAreFirst, RequestsFollow, ResponsesAreUnique, Deciding, Working
<1>2. SystemInv /\ FirstResponseInv /\ [SystemNext]_systemVars
        => FirstResponseInv'
  <2> SUFFICES ASSUME SystemInv, FirstResponseInv, [SystemNext]_systemVars
               PROVE  FirstResponseInv'
    OBVIOUS
  <2>1. CASE Next /\ UNCHANGED taskVars
    BY <2>1, WorkflowAssumption, HandlerKeepsFirst
  <2>2. ASSUME NEW w \in Workers, WorkerStep(w)
        PROVE  FirstResponseInv'
    BY <2>2, QuietWorkerIsFirst, FirstResponse
  <2>3. CASE UNCHANGED systemVars
    BY <2>3 DEF systemVars, vars, taskVars, FirstResponseInv, OneAtATime,
       AnsweredStay, WorkersAreFirst, RequestsFollow, ResponsesAreUnique,
       ResponseEvents, DocOf
  <2> QED
    BY <2>1, <2>2, <2>3, SystemNextIsStep
<1>3. FirstResponseInv => OneResponsePerDocument
  <2> SUFFICES ASSUME FirstResponseInv, NEW d \in Documents
               PROVE  Cardinality(ResponseEvents(d)) <= 1
    BY DEF OneResponsePerDocument
  <2>1. CASE ResponseEvents(d) = {}
    BY <2>1, FS_EmptySet
  <2>2. CASE ResponseEvents(d) # {}
    <3>1. PICK i : i \in ResponseEvents(d)
      BY <2>2
    <3>2. ResponseEvents(d) = {i}
      BY <3>1 DEF FirstResponseInv, ResponsesAreUnique
    <3> QED
      BY <3>2, FS_Singleton
  <2> QED
    BY <2>1, <2>2
<1> QED
  BY <1>1, <1>2, <1>3, SystemInvariant, PTL DEF SystemSpec

=============================================================================
