------------------------------ MODULE Numbering ------------------------------
(***************************************************************************)
(* How a document gets its number (sequence_service), inside the           *)
(* transaction that creates it.  The transaction locks the series' row in  *)
(* document_sequences (SELECT ... FOR UPDATE) until it commits; the first  *)
(* document of a series finds no row and inserts one, and two transactions *)
(* may do that at once.  The tenant's administrator may change the         *)
(* prefixes meanwhile.                                                     *)
(*                                                                         *)
(* One tenant: the rows of different tenants have nothing in common.       *)
(***************************************************************************)
EXTENDS Integers, FiniteSets

CONSTANTS
  Requests,      \* the requests that create a document, one each
  DocTypes,      \* SequenceDocType
  Prefixes,      \* the prefixes in use
  DefaultPrefix, \* the prefix of each kind of document in the settings
  None,          \* the SQL NULL
  MaxSettings    \* bound: how often the tenant changes a prefix

ASSUME NumberingAssumption ==
  /\ DefaultPrefix \in [DocTypes -> Prefixes]
  /\ None \notin Requests \cup Prefixes
  /\ MaxSettings \in Nat

VARIABLES
  prefix,    \* the tenant's prefix for each kind of document, or None
  settings,  \* how often it has been changed
  exists,    \* the series that have a committed row
  last,      \* last_number of each series, 0 where there is no row
  holder,    \* the transaction that has locked, or inserted, the row
  documents, \* the committed documents
  creation   \* where each request is

vars == <<prefix, settings, exists, last, holder, documents, creation>>

Series == DocTypes \X Prefixes

Document == [series : Series, number : Nat, by : Requests]

InTransaction == {"resolved", "missing", "locked", "numbered"}
Finished      == {"created", "refused", "failed", "crashed"}

(* value is seq.last_number in the request's session.                      *)
Creation ==
  [pc     : {"idle"} \cup InTransaction \cup Finished,
   series : Series \cup {None},
   value  : Nat]

Init ==
  /\ prefix \in [DocTypes -> Prefixes \cup {None}]
  /\ settings = 0
  /\ exists = {}
  /\ last = [s \in Series |-> 0]
  /\ holder = [s \in Series |-> None]
  /\ documents = {}
  /\ creation =
       [r \in Requests |-> [pc |-> "idle", series |-> None, value |-> 0]]

(* PATCH /tenants/me: one atomic commit, that no lock delays.              *)
UpdateMyTenant(t, p) ==
  /\ settings < MaxSettings
  /\ settings' = settings + 1
  /\ prefix' = [prefix EXCEPT ![t] = p]
  /\ UNCHANGED <<exists, last, holder, documents, creation>>

ResolvePrefix(t) == IF prefix[t] = None THEN DefaultPrefix[t] ELSE prefix[t]

(* The request arrives; next_number reads the tenant's prefix.             *)
Resolve(r, t) ==
  /\ creation[r].pc = "idle"
  /\ creation' = [creation EXCEPT ![r] = [pc     |-> "resolved",
                                          series |-> <<t, ResolvePrefix(t)>>,
                                          value  |-> 0]]
  /\ UNCHANGED <<prefix, settings, exists, last, holder, documents>>

(* Fault: the row is read without FOR UPDATE.                              *)
SelectWithoutLock(r) ==
  LET s == creation[r].series IN
  /\ creation[r].pc = "resolved"
  /\ s \in exists
  /\ creation' = [creation EXCEPT ![r].pc = "locked", ![r].value = last[s]]
  /\ UNCHANGED <<prefix, settings, exists, last, holder, documents>>

(* SELECT ... FOR UPDATE waits for the row's holder and then reads what    *)
(* that one committed.                                                     *)
SelectForUpdate(r) ==
  LET s == creation[r].series IN
  /\ creation[r].pc = "resolved"
  /\ s \in exists
  /\ holder[s] = None
  /\ holder' = [holder EXCEPT ![s] = r]
  /\ creation' = [creation EXCEPT ![r].pc = "locked", ![r].value = last[s]]
  /\ UNCHANGED <<prefix, settings, exists, last, documents>>

(* The row another transaction has inserted but not committed is not seen. *)
SelectNothing(r) ==
  /\ creation[r].pc = "resolved"
  /\ creation[r].series \notin exists
  /\ creation' = [creation EXCEPT ![r].pc = "missing"]
  /\ UNCHANGED <<prefix, settings, exists, last, holder, documents>>

(* Fault: the table lacks uq_sequence_tenant_type_prefix, so that another  *)
(* transaction's row does not stand in the way.                            *)
InsertUnconstrained(r) ==
  /\ creation[r].pc = "missing"
  /\ creation' = [creation EXCEPT ![r].pc = "locked", ![r].value = 0]
  /\ holder' = [holder EXCEPT ![creation[r].series] = r]
  /\ UNCHANGED <<prefix, settings, exists, last, documents>>

(* The INSERT waits for another uncommitted row with the same key.         *)
InsertSequence(r) ==
  LET s == creation[r].series IN
  /\ creation[r].pc = "missing"
  /\ s \notin exists
  /\ holder[s] = None
  /\ holder' = [holder EXCEPT ![s] = r]
  /\ creation' = [creation EXCEPT ![r].pc = "locked", ![r].value = 0]
  /\ UNCHANGED <<prefix, settings, exists, last, documents>>

(* The key has been committed meanwhile: IntegrityError, which nothing     *)
(* handles, so that the request ends in a 500.                             *)
InsertDuplicate(r) ==
  /\ creation[r].pc = "missing"
  /\ creation[r].series \in exists
  /\ creation' = [creation EXCEPT ![r].pc = "failed"]
  /\ UNCHANGED <<prefix, settings, exists, last, holder, documents>>

(* seq.last_number += 1, flushed but not committed.                        *)
Increment(r) ==
  /\ creation[r].pc = "locked"
  /\ creation' = [creation EXCEPT ![r].pc = "numbered",
                                  ![r].value = @ + 1]
  /\ UNCHANGED <<prefix, settings, exists, last, holder, documents>>

Release(r) ==
  holder' = [s \in Series |-> IF holder[s] = r THEN None ELSE holder[s]]

(* The sequence row and the document, committed together.                  *)
Commit(r) ==
  LET s == creation[r].series IN
  /\ creation[r].pc = "numbered"
  /\ exists' = exists \cup {s}
  /\ last' = [last EXCEPT ![s] = creation[r].value]
  /\ documents' = documents \cup
       {[series |-> s, number |-> creation[r].value, by |-> r]}
  /\ creation' = [creation EXCEPT ![r].pc = "created"]
  /\ Release(r)
  /\ UNCHANGED <<prefix, settings>>

(* Fault: the incremented row outlives the transaction it was part of.     *)
RollbackKeepingNumber(r, outcome) ==
  /\ creation[r].pc = "numbered"
  /\ exists' = exists \cup {creation[r].series}
  /\ last' = [last EXCEPT ![creation[r].series] = creation[r].value]
  /\ creation' = [creation EXCEPT ![r].pc = outcome]
  /\ Release(r)
  /\ UNCHANGED <<prefix, settings, documents>>

(* Fault: the lock outlives the transaction.                               *)
RollbackKeepingLock(r, outcome) ==
  /\ creation[r].pc \in InTransaction
  /\ creation' = [creation EXCEPT ![r].pc = outcome]
  /\ UNCHANGED <<prefix, settings, exists, last, holder, documents>>

Rollback(r, outcome) ==
  /\ creation[r].pc \in InTransaction
  /\ creation' = [creation EXCEPT ![r].pc = outcome]
  /\ Release(r)
  /\ UNCHANGED <<prefix, settings, exists, last, documents>>

(* A line of the new document names an unknown product: raised after       *)
(* next_number, before the document is inserted.                           *)
Refuse(r) == creation[r].pc = "numbered" /\ Rollback(r, "refused")

(* The process dies or loses its connection: PostgreSQL rolls back.        *)
Crash(r) == Rollback(r, "crashed")

Proceed(r) ==
  \/ SelectForUpdate(r) \/ SelectNothing(r)
  \/ InsertSequence(r) \/ InsertDuplicate(r)
  \/ Increment(r)
  \/ Commit(r)

Next ==
  \/ \E r \in Requests, t \in DocTypes : Resolve(r, t)
  \/ \E r \in Requests : Proceed(r) \/ Refuse(r) \/ Crash(r)
  \/ \E t \in DocTypes, p \in Prefixes \cup {None} : UpdateMyTenant(t, p)

Spec == Init /\ [][Next]_vars

(* A thread that serves a request keeps running until it waits for a row.  *)
FairSpec == Spec /\ \A r \in Requests : WF_vars(Proceed(r))

-----------------------------------------------------------------------------
TypeOK ==
  /\ prefix \in [DocTypes -> Prefixes \cup {None}]
  /\ settings \in Nat
  /\ exists \subseteq Series
  /\ last \in [Series -> Nat]
  /\ holder \in [Series -> Requests \cup {None}]
  /\ documents \subseteq Document
  /\ creation \in [Requests -> Creation]

(* No two documents of a series have the same number, whichever            *)
(* transactions overlap (uq_invoice_tenant_number never has to refuse).    *)
NumbersAreUnique ==
  \A x, y \in documents :
    x.series = y.series /\ x.number = y.number => x = y

(* A series has no gap, although creations are refused and processes die   *)
(* after they took a number: its numbers are exactly 1 .. last_number.     *)
NumbersAreGapless ==
  \A s \in Series :
    {x.number : x \in {y \in documents : y.series = s}} = 1 .. last[s]

(* Creating a document is atomic as far as numbers are concerned.          *)
Atomic == INSTANCE AtomicNumbering WITH count <- last
ImplementsAtomicNumbering == Atomic!Spec

(* Everyone who waits for a series' row gets an answer: no transaction     *)
(* ever holds two series' rows.                                            *)
CreationsFinish ==
  \A r \in Requests :
    creation[r].pc \in InTransaction ~> creation[r].pc \in Finished

-----------------------------------------------------------------------------
(* The inductive invariant behind the properties.  A transaction that has  *)
(* read the row still holds it, and what it read is still what is          *)
(* committed; a series without a row has no documents; the documents are   *)
(* those of the requests that finished creating one.                       *)

HoldersHaveTheRow ==
  \A r \in Requests :
    /\ creation[r].pc # "idle" => creation[r].series \in Series
    /\ creation[r].pc \in {"locked", "numbered"} =>
         holder[creation[r].series] = r

ValueIsCurrent ==
  \A r \in Requests :
    /\ creation[r].pc = "locked" =>
         creation[r].value = last[creation[r].series]
    /\ creation[r].pc = "numbered" =>
         creation[r].value = last[creation[r].series] + 1

NumbersInRange ==
  \A x \in documents : x.number \in 1 .. last[x.series]

EveryNumberIssued ==
  \A s \in Series : \A n \in 1 .. last[s] :
    \E x \in documents : x.series = s /\ x.number = n

MissingRowMeansZero ==
  \A s \in Series : s \notin exists => last[s] = 0

CreatorsFinished ==
  \A x \in documents : creation[x.by].pc = "created"

NumberingInv ==
  /\ TypeOK
  /\ HoldersHaveTheRow
  /\ ValueIsCurrent
  /\ NumbersInRange
  /\ EveryNumberIssued
  /\ MissingRowMeansZero
  /\ CreatorsFinished
  /\ NumbersAreUnique
=============================================================================
