-------------------------- MODULE DocumentLifecycle --------------------------
(***************************************************************************)
(* What the API promises of a document, every operation taken as one       *)
(* atomic step: a document is created as a draft, its content changes only *)
(* while it is a draft, signing issues an XML with exactly that content,   *)
(* its status moves along the transition table and nowhere else, and a     *)
(* note is created only against an invoice that is issued at that moment.  *)
(***************************************************************************)
EXTENDS DocumentStateMachine

CONSTANTS Documents, DocType, Contents, None

VARIABLES
  status,   \* of each document; "absent" before it is created
  content,  \* what its lines, totals and header say
  issued    \* the content of the XML it was signed with, or None

vars == <<status, content, issued>>

Init ==
  /\ status = [d \in Documents |-> "absent"]
  /\ content \in [Documents -> Contents]
  /\ issued = [d \in Documents |-> None]

Create(d) ==
  /\ status[d] = "absent"
  /\ \/ DocType[d] = "invoice"
     \/ \E i \in Documents : /\ DocType[i] = "invoice"
                             /\ status[i] \in ReferenceInvoiceStatuses
  /\ status' = [status EXCEPT ![d] = "draft"]
  /\ \E c \in Contents : content' = [content EXCEPT ![d] = c]
  /\ UNCHANGED issued

Edit(d) ==
  /\ DocType[d] = "invoice"
  /\ status[d] \in EditableStatuses
  /\ \E c \in Contents : content' = [content EXCEPT ![d] = c]
  /\ UNCHANGED <<status, issued>>

Sign(d) ==
  /\ Transition(status[d], "sign", "signed")
  /\ status' = [status EXCEPT ![d] = "signed"]
  /\ issued' = [issued EXCEPT ![d] = content[d]]
  /\ UNCHANGED content

Move(d, action) ==
  /\ action # "sign"
  /\ \E to \in DocumentStatus :
       /\ Transition(status[d], action, to)
       /\ status' = [status EXCEPT ![d] = to]
  /\ UNCHANGED <<content, issued>>

Next ==
  \E d \in Documents :
    \/ Create(d) \/ Edit(d) \/ Sign(d)
    \/ \E action \in TransitionAction : Move(d, action)

Spec == Init /\ [][Next]_vars
=============================================================================
