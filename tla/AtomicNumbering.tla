--------------------------- MODULE AtomicNumbering ---------------------------
(***************************************************************************)
(* What document numbering promises, the creation of a document being one  *)
(* atomic step: in each series (a kind of document and a prefix) the       *)
(* documents are numbered 1, 2, 3, ... in the order they come to exist.    *)
(***************************************************************************)
EXTENDS Integers

CONSTANTS Requests, Series

VARIABLES
  count,     \* how many documents each series has
  documents  \* every document: its series, its number, who created it

vars == <<count, documents>>

Init ==
  /\ count = [s \in Series |-> 0]
  /\ documents = {}

Issue(r, s) ==
  /\ \A x \in documents : x.by # r
  /\ count' = [count EXCEPT ![s] = @ + 1]
  /\ documents' =
       documents \cup {[series |-> s, number |-> count[s] + 1, by |-> r]}

Next == \E r \in Requests, s \in Series : Issue(r, s)

Spec == Init /\ [][Next]_vars
=============================================================================
