---------------------------- MODULE DianSubmission ----------------------------
(***************************************************************************)
(* The Celery workers that submit documents to the DIAN (workers/tasks),   *)
(* beside the HTTP handlers of DocumentWorkflow.  A message is delivered   *)
(* at least once: it is acknowledged after the task returns (acks_late),   *)
(* returned to the queue when the worker process is lost                   *)
(* (task_reject_on_worker_lost), published again by autoretry when a task  *)
(* raises one of the errors of _TASK_KWARGS, and given up when the retries *)
(* are exhausted or the time limit passes.                                 *)
(***************************************************************************)
EXTENDS DocumentWorkflow

CONSTANTS
  Workers,      \* the worker processes (celery --concurrency)
  MaxRetries,   \* max_retries of _TASK_KWARGS
  MaxFaults,    \* bound: connection errors and lost worker processes
  MaxTimeouts   \* bound: tasks killed by their time limit

ASSUME SubmissionAssumption ==
  MaxRetries \in Nat /\ MaxFaults \in Nat /\ MaxTimeouts \in Nat

VARIABLES
  task,     \* what each worker is doing
  dian,     \* what the DIAN was sent for each document, and answered
  faults,   \* how many errors and losses there have been
  timeouts  \* how many tasks were killed

taskVars   == <<task, dian, faults, timeouts>>
systemVars == <<vars, taskVars>>

Answers    == {"accepted", "rejected"}
Submission == [xml : Content \cup {None}, answer : Answers]

Free == [pc |-> "free", msg |-> None, status |-> "absent", answer |-> None]

Task ==
  [pc     : {"free", "taken", "loaded", "answered", "recorded", "finished"},
   msg    : Message \cup {None},
   status : Status,
   answer : Answers \cup {None}]

SystemInit ==
  /\ Init
  /\ task = [w \in Workers |-> Free]
  /\ dian = [d \in Documents |-> <<>>]
  /\ faults = 0
  /\ timeouts = 0

DocOf(w) == task[w].msg.doc

(* A worker reserves one message at a time (prefetch multiplier 1).        *)
TakeTask(w) ==
  \E m \in broker :
    /\ task[w].pc = "free"
    /\ broker' = broker \ {m}
    /\ task' = [task EXCEPT ![w] = [Free EXCEPT !.pc = "taken", !.msg = m]]
    /\ UNCHANGED <<row, lines, events, xmlFile, lock, audit, req, crashes,
                   dian, faults, timeouts>>

(* Fault: the check for SUBMITTED is dropped, the one for terminal         *)
(* statuses stays.                                                         *)
LoadAnyUnfinished(w) ==
  /\ task[w].pc = "taken"
  /\ IF row[DocOf(w)].status \in TerminalStatuses
       THEN task' = [task EXCEPT ![w].pc = "finished"]
       ELSE task' = [task EXCEPT ![w].pc = "loaded",
                                 ![w].status = row[DocOf(w)].status]
  /\ UNCHANGED <<vars, dian, faults, timeouts>>

(* Fault: the check for terminal statuses and the one for SUBMITTED are    *)
(* both dropped.                                                           *)
LoadAnySigned(w) ==
  /\ task[w].pc = "taken"
  /\ task' = [task EXCEPT ![w].pc = "loaded",
                          ![w].status = row[DocOf(w)].status]
  /\ UNCHANGED <<vars, dian, faults, timeouts>>

(* The task reads the row without locking it, and returns at once when the *)
(* document is terminal, is not submitted, or has no XML.                  *)
LoadDocument(w) ==
  LET d == DocOf(w) IN
  /\ task[w].pc = "taken"
  /\ IF \/ row[d].status \in TerminalStatuses
        \/ row[d].status # "submitted"
        \/ row[d].signature = None
       THEN task' = [task EXCEPT ![w].pc = "finished"]
       ELSE task' = [task EXCEPT ![w].pc = "loaded",
                                 ![w].status = row[d].status]
  /\ UNCHANGED <<vars, dian, faults, timeouts>>

(* The XML file is read and sent: the mock adapter accepts or rejects at   *)
(* random.                                                                 *)
SubmitDocument(w) ==
  \E answer \in Answers :
    /\ task[w].pc = "loaded"
    /\ dian' = [dian EXCEPT ![DocOf(w)] =
                  Append(@, [xml |-> xmlFile[DocOf(w)], answer |-> answer])]
    /\ task' = [task EXCEPT ![w].pc = "answered", ![w].answer = answer]
    /\ UNCHANGED <<vars, faults, timeouts>>

(* Fault: an answer that was lost counts as a rejection.                   *)
RecordRejection(w) ==
  LET d == DocOf(w) IN
  /\ task[w].pc \in {"loaded", "answered"}
  /\ row' = [row EXCEPT ![d].status = "rejected", ![d].response = "rejected"]
  /\ RecordEvent(d, "dian_response", task[w].status, "rejected")
  /\ task' = [task EXCEPT ![w].pc = "recorded"]
  /\ UNCHANGED <<lines, xmlFile, lock, broker, audit, req, crashes,
                 dian, faults, timeouts>>

(* The status, the response and the DIAN_RESPONSE event, committed         *)
(* together over whatever status the row has now.                          *)
RecordResponse(w) ==
  LET d == DocOf(w) IN
  /\ task[w].pc = "answered"
  /\ lock[d] = None
  /\ row' = [row EXCEPT ![d].status = task[w].answer,
                        ![d].response = task[w].answer]
  /\ RecordEvent(d, "dian_response", task[w].status, task[w].answer)
  /\ task' = [task EXCEPT ![w].pc = "recorded"]
  /\ UNCHANGED <<lines, xmlFile, lock, broker, audit, req, crashes,
                 dian, faults, timeouts>>

(* acks_late: the message is gone once the task has returned.              *)
Acknowledge(w) ==
  /\ task[w].pc \in {"recorded", "finished"}
  /\ task' = [task EXCEPT ![w] = Free]
  /\ UNCHANGED <<vars, dian, faults, timeouts>>

(* Fault: an error loses the task.                                         *)
GiveUp(w) ==
  /\ task[w].pc \in {"taken", "loaded", "answered", "recorded"}
  /\ faults < MaxFaults
  /\ faults' = faults + 1
  /\ task' = [task EXCEPT ![w] = Free]
  /\ UNCHANGED <<vars, dian, timeouts>>

(* OperationalError, ConnectionError or TimeoutError: autoretry publishes  *)
(* the message again unless it was retried too often.  When the connection *)
(* fails while committing, the commit may have happened ("recorded").      *)
Retry(w) ==
  LET m == task[w].msg IN
  /\ task[w].pc \in {"taken", "loaded", "answered", "recorded"}
  /\ faults < MaxFaults
  /\ faults' = faults + 1
  /\ broker' = IF m.retries < MaxRetries
                 THEN broker \cup {[m EXCEPT !.retries = @ + 1]}
                 ELSE broker
  /\ task' = [task EXCEPT ![w] = Free]
  /\ UNCHANGED <<row, lines, events, xmlFile, lock, audit, req, crashes,
                 dian, timeouts>>

(* The worker process dies: the unacknowledged message is redelivered.     *)
WorkerLost(w) ==
  /\ task[w].pc # "free"
  /\ faults < MaxFaults
  /\ faults' = faults + 1
  /\ broker' = broker \cup {task[w].msg}
  /\ task' = [task EXCEPT ![w] = Free]
  /\ UNCHANGED <<row, lines, events, xmlFile, lock, audit, req, crashes,
                 dian, timeouts>>

(* soft_time_limit and time_limit are not among the errors to retry: the   *)
(* task fails and its message is acknowledged.                             *)
TimeLimit(w) ==
  /\ task[w].pc \in {"taken", "loaded", "answered"}
  /\ timeouts < MaxTimeouts
  /\ timeouts' = timeouts + 1
  /\ task' = [task EXCEPT ![w] = Free]
  /\ UNCHANGED <<vars, dian, faults>>

SubmitToDian(w, type) ==
  /\ task[w].pc # "free"
  /\ DocType[DocOf(w)] = type
  /\ LoadDocument(w) \/ SubmitDocument(w) \/ RecordResponse(w)

SubmitInvoiceToDian(w)    == SubmitToDian(w, "invoice")
SubmitCreditNoteToDian(w) == SubmitToDian(w, "credit_note")
SubmitDebitNoteToDian(w)  == SubmitToDian(w, "debit_note")

Work(w) ==
  \/ TakeTask(w)
  \/ SubmitInvoiceToDian(w)
  \/ SubmitCreditNoteToDian(w)
  \/ SubmitDebitNoteToDian(w)
  \/ Acknowledge(w)

Disturb(w) == Retry(w) \/ WorkerLost(w) \/ TimeLimit(w)

SystemNext ==
  \/ Next /\ UNCHANGED taskVars
  \/ \E w \in Workers : Work(w) \/ Disturb(w)

SystemSpec == SystemInit /\ [][SystemNext]_systemVars

(* Besides the requests in progress, the workers keep running.             *)
SystemFairSpec ==
  /\ SystemSpec
  /\ \A r \in Requests :
       WF_systemVars(req[r].pc # "idle" /\ Serve(r) /\ UNCHANGED taskVars)
  /\ \A w \in Workers : WF_systemVars(Work(w))

-----------------------------------------------------------------------------
SystemTypeOK ==
  /\ TypeOK
  /\ task \in [Workers -> Task]
  /\ dian \in [Documents -> Seq(Submission)]
  /\ faults \in Nat
  /\ timeouts \in Nat

(* Only documents that were submitted ever reach the DIAN, however stale   *)
(* the task (the check status != SUBMITTED of the tasks).                  *)
DianGetsSubmittedDocuments ==
  \A d \in Documents :
    dian[d] # <<>> =>
      \E i \in DOMAIN events[d] : events[d][i].type = "submitted"

(* The positions of a document's responses in its history.                 *)
ResponseEvents(d) ==
  {i \in DOMAIN events[d] : events[d][i].type = "dian_response"}

Recorded(d, answer) == {i \in ResponseEvents(d) : events[d][i].to = answer}
Given(d, answer)    == {i \in DOMAIN dian[d] : dian[d][i].answer = answer}

(* Every response in a document's history, and the one in its row, is one  *)
(* the DIAN gave, at most one record per answer, although answers are lost *)
(* and documents submitted again.                                          *)
ResponsesWereGiven ==
  \A d \in Documents :
    /\ \A answer \in Answers :
         Cardinality(Recorded(d, answer)) <= Cardinality(Given(d, answer))
    /\ row[d].response # None => Recorded(d, row[d].response) # {}

(* However often tasks are redelivered, retried or queued again, one       *)
(* response is recorded for a document as long as one worker runs them     *)
(* (the idempotence of _is_terminal() and status != SUBMITTED; two workers *)
(* that both read submitted record two).                                   *)
OneResponsePerDocument ==
  \A d \in Documents : Cardinality(ResponseEvents(d)) <= 1

Pending(d) ==
  \/ \E m \in broker : m.doc = d
  \/ \E w \in Workers : task[w].pc = "taken" /\ DocOf(w) = d

(* A document that is submitted while a task for it is waiting is answered *)
(* in the end, through redeliveries and retries (unless a time limit kills *)
(* the task, or the retries run out).                                      *)
SubmittedTasksAreAnswered ==
  \A d \in Documents :
    row[d].status = "submitted" /\ Pending(d)
      ~> row[d].status \in TerminalStatuses

(* The claim "Enviar DIAN (Celery) desde signed": a task for a signed      *)
(* document brings it to accepted or rejected.                             *)
QueuedDocumentsAreAnswered ==
  \A d \in Documents :
    row[d].status = "signed" /\ Pending(d) ~> row[d].status \in TerminalStatuses
=============================================================================
