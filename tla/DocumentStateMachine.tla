------------------------ MODULE DocumentStateMachine ------------------------
(***************************************************************************)
(* The statuses of a document, the actions a client may ask for, and the   *)
(* table that says which action leads where (app/domain).  Invoices,       *)
(* credit notes and debit notes share it.  The module has no state.        *)
(***************************************************************************)

DocumentStatus ==
  {"draft", "signed", "submitted", "accepted", "rejected", "cancelled"}

DocumentType == {"invoice", "credit_note", "debit_note"}

TransitionAction == {"sign", "submit", "accept", "reject", "cancel"}

DocumentEventType ==
  {"created", "updated", "signed", "submitted", "accepted", "rejected",
   "cancelled", "dian_submit_queued", "dian_response"}

(* Fault: a draft may be submitted unsigned.                               *)
TransitionsWithUnsignedSubmit ==
  { <<"draft",     "sign",   "signed">>,
    <<"draft",     "submit", "submitted">>,
    <<"signed",    "submit", "submitted">>,
    <<"submitted", "accept", "accepted">>,
    <<"submitted", "reject", "rejected">>,
    <<"draft",     "cancel", "cancelled">>,
    <<"signed",    "cancel", "cancelled">> }

(***************************************************************************)
(* _TRANSITIONS as the set of its entries <<status, action, new status>>.  *)
(***************************************************************************)
Transitions ==
  { <<"draft",     "sign",   "signed">>,
    <<"signed",    "submit", "submitted">>,
    <<"submitted", "accept", "accepted">>,
    <<"submitted", "reject", "rejected">>,
    <<"draft",     "cancel", "cancelled">>,
    <<"signed",    "cancel", "cancelled">> }

ReferenceInvoiceStatuses == {"signed", "submitted", "accepted"}

EditableStatuses == {"draft"}

DianSubmittableStatuses == {"signed"}

(* The new status of transition(current, action): no value of "to" makes   *)
(* this true when the code raises invalid_transition.                      *)
Transition(current, action, to) == <<current, action, to>> \in Transitions

(* transition(current, action) does not raise *)
Allowed(current, action) ==
  \E to \in DocumentStatus : Transition(current, action, to)

(* Fault: an action missing from the mapping falls back to its own name.   *)
EventTypeWithoutCancel ==
  [action \in TransitionAction |->
     CASE action = "sign"   -> "signed"
       [] action = "submit" -> "submitted"
       [] action = "accept" -> "accepted"
       [] action = "reject" -> "rejected"
       [] action = "cancel" -> "cancel"]

(* Fault: the mapping names the event after the action.                    *)
EventTypeWithoutAccept ==
  [action \in TransitionAction |->
     CASE action = "sign"   -> "signed"
       [] action = "submit" -> "submitted"
       [] action = "accept" -> "accept"
       [] action = "reject" -> "rejected"
       [] action = "cancel" -> "cancelled"]

EventTypeForTransition ==
  [action \in TransitionAction |->
     CASE action = "sign"   -> "signed"
       [] action = "submit" -> "submitted"
       [] action = "accept" -> "accepted"
       [] action = "reject" -> "rejected"
       [] action = "cancel" -> "cancelled"]

(* tasks.py, _is_terminal *)
TerminalStatuses == {"accepted", "rejected", "cancelled"}
=============================================================================
