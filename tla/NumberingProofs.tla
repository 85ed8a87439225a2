--------------------------- MODULE NumberingProofs ---------------------------
(***************************************************************************)
(* Theorems about Numbering, for any number of requests, kinds of document *)
(* and prefixes: NumberingInv is an inductive invariant, the numbers of a  *)
(* series are unique and gapless, and the creation of a document           *)
(* implements AtomicNumbering.                                             *)
(***************************************************************************)
EXTENDS Numbering, TLAPS

(* The initial states satisfy the inductive invariant.                     *)
LEMMA NumberingInit == Init => NumberingInv
  BY NumberingAssumption
  DEF NumberingAssumption, Init, NumberingInv, TypeOK, HoldersHaveTheRow,
      ValueIsCurrent, NumbersInRange, EveryNumberIssued,
      MissingRowMeansZero, CreatorsFinished, NumbersAreUnique, Creation,
      InTransaction, Finished

(* A request that has got hold of the row is well typed.                   *)
LEMMA LockedCreation ==
  ASSUME creation \in [Requests -> Creation],
         NEW r \in Requests, NEW v \in Nat,
         creation' = [creation EXCEPT ![r].pc = "locked", ![r].value = v]
  PROVE  creation' \in [Requests -> Creation]
  BY DEF Creation, InTransaction, Finished

(* Every step keeps the variables in their types.                          *)
LEMMA NumberingTypeStep ==
  TypeOK /\ HoldersHaveTheRow /\ [Next]_vars => TypeOK'
<1> SUFFICES ASSUME TypeOK, HoldersHaveTheRow, [Next]_vars
             PROVE  TypeOK'
  OBVIOUS
<1> USE NumberingAssumption
        DEF NumberingAssumption, TypeOK, Creation, InTransaction, Finished
<1>1. ASSUME NEW r \in Requests, NEW t \in DocTypes, Resolve(r, t)
      PROVE  TypeOK'
  BY <1>1 DEF Resolve, ResolvePrefix, Series
<1>2. ASSUME NEW r \in Requests, SelectForUpdate(r)
      PROVE  TypeOK'
  <2>1. creation[r].series \in Series
    BY <1>2 DEF SelectForUpdate
  <2>2. holder' \in [Series -> Requests \cup {None}]
    BY <1>2 DEF SelectForUpdate
  <2>3. creation' \in [Requests -> Creation]
    <3>1. last[creation[r].series] \in Nat
      BY <2>1
    <3> QED
      BY <1>2, <3>1, LockedCreation DEF SelectForUpdate
  <2> QED
    BY <1>2, <2>2, <2>3 DEF SelectForUpdate
<1>3. ASSUME NEW r \in Requests, SelectNothing(r)
      PROVE  TypeOK'
  BY <1>3 DEF SelectNothing
<1>4. ASSUME NEW r \in Requests, InsertSequence(r)
      PROVE  TypeOK'
  <2>1. holder' \in [Series -> Requests \cup {None}]
    BY <1>4 DEF InsertSequence
  <2>2. creation' \in [Requests -> Creation]
    BY <1>4, 0 \in Nat, LockedCreation DEF InsertSequence
  <2> QED
    BY <1>4, <2>1, <2>2 DEF InsertSequence
<1>5. ASSUME NEW r \in Requests, InsertDuplicate(r)
      PROVE  TypeOK'
  BY <1>5 DEF InsertDuplicate
<1>6. ASSUME NEW r \in Requests, Increment(r)
      PROVE  TypeOK'
  BY <1>6 DEF Increment
<1>7. ASSUME NEW r \in Requests, Commit(r)
      PROVE  TypeOK'
  BY <1>7 DEF Commit, Release, Document, HoldersHaveTheRow
<1>8. ASSUME NEW r \in Requests,
             Refuse(r) \/ Crash(r)
      PROVE  TypeOK'
  BY <1>8 DEF Refuse, Crash, Rollback, Release
<1>9. ASSUME NEW t \in DocTypes, NEW p \in Prefixes \cup {None},
             UpdateMyTenant(t, p)
      PROVE  TypeOK'
  BY <1>9 DEF UpdateMyTenant
<1>10. CASE UNCHANGED vars
  BY <1>10 DEF vars
<1> QED
  BY <1>1, <1>2, <1>3, <1>4, <1>5, <1>6, <1>7, <1>8, <1>9, <1>10
  DEF Next, Proceed

(* Every step keeps the row with the transaction that read it, and the     *)
(* value it read current.                                                  *)
LEMMA NumberingLockStep ==
  NumberingInv /\ [Next]_vars => HoldersHaveTheRow' /\ ValueIsCurrent'
<1> SUFFICES ASSUME NumberingInv, [Next]_vars
             PROVE  HoldersHaveTheRow' /\ ValueIsCurrent'
  OBVIOUS
<1> USE NumberingAssumption
        DEF NumberingAssumption, NumberingInv, TypeOK, Creation,
            InTransaction, Finished, HoldersHaveTheRow, ValueIsCurrent
<1>1. ASSUME NEW r \in Requests, NEW t \in DocTypes, Resolve(r, t)
      PROVE  HoldersHaveTheRow' /\ ValueIsCurrent'
  BY <1>1 DEF Resolve, ResolvePrefix, Series
<1>2. ASSUME NEW r \in Requests, SelectForUpdate(r)
      PROVE  HoldersHaveTheRow' /\ ValueIsCurrent'
  BY <1>2 DEF SelectForUpdate
<1>3. ASSUME NEW r \in Requests, SelectNothing(r)
      PROVE  HoldersHaveTheRow' /\ ValueIsCurrent'
  BY <1>3 DEF SelectNothing
<1>4. ASSUME NEW r \in Requests, InsertSequence(r)
      PROVE  HoldersHaveTheRow' /\ ValueIsCurrent'
  BY <1>4 DEF InsertSequence, MissingRowMeansZero
<1>5. ASSUME NEW r \in Requests, InsertDuplicate(r)
      PROVE  HoldersHaveTheRow' /\ ValueIsCurrent'
  BY <1>5 DEF InsertDuplicate
<1>6. ASSUME NEW r \in Requests, Increment(r)
      PROVE  HoldersHaveTheRow' /\ ValueIsCurrent'
  BY <1>6 DEF Increment
<1>7. ASSUME NEW r \in Requests, Commit(r)
      PROVE  HoldersHaveTheRow' /\ ValueIsCurrent'
  BY <1>7 DEF Commit, Release
<1>8. ASSUME NEW r \in Requests, Refuse(r) \/ Crash(r)
      PROVE  HoldersHaveTheRow' /\ ValueIsCurrent'
  BY <1>8 DEF Refuse, Crash, Rollback, Release
<1>9. ASSUME NEW t \in DocTypes, NEW p \in Prefixes \cup {None},
             UpdateMyTenant(t, p)
      PROVE  HoldersHaveTheRow' /\ ValueIsCurrent'
  BY <1>9 DEF UpdateMyTenant
<1>10. CASE UNCHANGED vars
  BY <1>10 DEF vars
<1> QED
  BY <1>1, <1>2, <1>3, <1>4, <1>5, <1>6, <1>7, <1>8, <1>9, <1>10
  DEF Next, Proceed

(* What the committed documents and sequence rows say of each other.       *)
CommittedInv ==
  /\ NumbersInRange
  /\ EveryNumberIssued
  /\ MissingRowMeansZero
  /\ CreatorsFinished
  /\ NumbersAreUnique

(* A commit issues the next number of its series.                          *)
LEMMA CommitIssuesNext ==
  ASSUME NumberingInv, NEW r \in Requests, Commit(r)
  PROVE  LET s == creation[r].series IN
         /\ s \in Series
         /\ last' = [last EXCEPT ![s] = last[s] + 1]
         /\ documents' = documents \cup
              {[series |-> s, number |-> last[s] + 1, by |-> r]}
         /\ \A x \in documents : x.by # r
  BY DEF Commit, NumberingInv, HoldersHaveTheRow, ValueIsCurrent,
         CreatorsFinished, TypeOK, Creation

(* A commit keeps the numbers of every series unique and gapless.          *)
LEMMA CommitKeepsNumbers ==
  ASSUME NumberingInv, NEW r \in Requests, Commit(r)
  PROVE  CommittedInv'
<1> DEFINE s   == creation[r].series
           new == [series |-> s, number |-> last[s] + 1, by |-> r]
<1>1. /\ s \in Series
      /\ last' = [last EXCEPT ![s] = last[s] + 1]
      /\ documents' = documents \cup {new}
  BY CommitIssuesNext
<1>2. /\ last \in [Series -> Nat]
      /\ documents \subseteq Document
      /\ creation \in [Requests -> Creation]
      /\ exists' = exists \cup {s}
      /\ creation' = [creation EXCEPT ![r].pc = "created"]
      /\ last[s] \in Nat
  BY <1>1 DEF NumberingInv, TypeOK, Commit
<1>3. new.series = s /\ new.number = last[s] + 1 /\ new.by = r
  OBVIOUS
<1>4. \A x \in documents : x.series \in Series /\ x.number \in Nat
                           /\ x.by \in Requests
  BY <1>2 DEF Document
<1> HIDE DEF new, s
<1>5. NumbersInRange'
  BY <1>1, <1>2, <1>3, <1>4 DEF NumberingInv, NumbersInRange
<1>6. EveryNumberIssued'
  <2> SUFFICES ASSUME NEW q \in Series, NEW n \in 1 .. last'[q]
               PROVE  \E x \in documents' : x.series = q /\ x.number = n
    BY DEF EveryNumberIssued
  <2>1. CASE q = s /\ n = last[s] + 1
    BY <2>1, <1>1, <1>3
  <2>2. CASE ~ (q = s /\ n = last[s] + 1)
    <3>1. n \in 1 .. last[q]
      BY <2>2, <1>1, <1>2
    <3> QED
      BY <3>1, <1>1 DEF NumberingInv, EveryNumberIssued
  <2> QED
    BY <2>1, <2>2
<1>7. MissingRowMeansZero'
  BY <1>1, <1>2 DEF NumberingInv, MissingRowMeansZero
<1>8. CreatorsFinished'
  BY <1>1, <1>2, <1>3, <1>4 DEF NumberingInv, CreatorsFinished, Creation
<1>9. NumbersAreUnique'
  <2>1. \A x \in documents : ~ (x.series = s /\ x.number = last[s] + 1)
    BY <1>2 DEF NumberingInv, NumbersInRange
  <2> QED
    BY <2>1, <1>1, <1>3 DEF NumberingInv, NumbersAreUnique
<1> QED
  BY <1>5, <1>6, <1>7, <1>8, <1>9 DEF CommittedInv

(* Every other step leaves the documents and the sequence rows alone, and  *)
(* no request that created a document takes another step.                  *)
LEMMA OtherStepsKeepNumbers ==
  ASSUME NumberingInv, [Next]_vars, ~ \E r \in Requests : Commit(r)
  PROVE  CommittedInv' /\ last' = last /\ documents' = documents
<1>1. /\ documents' = documents
      /\ exists' = exists
      /\ last' = last
      /\ \A q \in Requests :
           creation[q].pc = "created" => creation'[q].pc = "created"
  BY DEF NumberingInv, TypeOK, Creation, InTransaction, Next, Proceed,
         Resolve, SelectForUpdate, SelectNothing, InsertSequence,
         InsertDuplicate, Increment, Refuse, Crash, Rollback,
         UpdateMyTenant, vars
<1>2. \A x \in documents : x.by \in Requests
  BY DEF NumberingInv, TypeOK, Document
<1> QED
  BY <1>1, <1>2
  DEF NumberingInv, CommittedInv, NumbersInRange, EveryNumberIssued,
      MissingRowMeansZero, CreatorsFinished, NumbersAreUnique

(* The inductive step.                                                     *)
LEMMA NumberingStep == NumberingInv /\ [Next]_vars => NumberingInv'
<1> SUFFICES ASSUME NumberingInv, [Next]_vars
             PROVE  NumberingInv'
  OBVIOUS
<1>1. TypeOK'
  BY NumberingTypeStep DEF NumberingInv
<1>2. HoldersHaveTheRow' /\ ValueIsCurrent'
  BY NumberingLockStep
<1>3. CommittedInv'
  BY CommitKeepsNumbers, OtherStepsKeepNumbers
<1> QED
  BY <1>1, <1>2, <1>3 DEF NumberingInv, CommittedInv

(* Numbering's inductive invariant holds in every reachable state: a       *)
(* transaction of next_number works on a row that is its own and current.  *)
THEOREM NumberingInvariant == Spec => []NumberingInv
<1> QED
  BY NumberingInit, NumberingStep, PTL DEF Spec

(* Type correctness of Numbering.                                          *)
THEOREM NumberingTypeOK == Spec => []TypeOK
<1>1. NumberingInv => TypeOK
  BY DEF NumberingInv
<1> QED
  BY <1>1, NumberingInvariant, PTL

(* No two documents of a series ever have the same number: the unique      *)
(* constraint on (tenant, number) never refuses a creation.                *)
THEOREM NumbersUnique == Spec => []NumbersAreUnique
<1>1. NumberingInv => NumbersAreUnique
  BY DEF NumberingInv
<1> QED
  BY <1>1, NumberingInvariant, PTL

(* The numbers of a series are exactly 1 .. last_number, although          *)
(* creations are refused and processes die after taking a number.          *)
THEOREM NumbersGapless == Spec => []NumbersAreGapless
<1>1. ASSUME NumberingInv
      PROVE  NumbersAreGapless
  <2> SUFFICES ASSUME NEW s \in Series
               PROVE  {x.number : x \in {y \in documents : y.series = s}}
                        = 1 .. last[s]
    BY DEF NumbersAreGapless
  <2>1. \A x \in documents : x.series = s => x.number \in 1 .. last[s]
    BY <1>1 DEF NumberingInv, NumbersInRange
  <2>2. \A n \in 1 .. last[s] :
          \E x \in documents : x.series = s /\ x.number = n
    BY <1>1 DEF NumberingInv, EveryNumberIssued
  <2> QED
    BY <2>1, <2>2
<1> QED
  BY <1>1, NumberingInvariant, PTL

(* Creating a document implements the atomic numbering: a commit issues    *)
(* the next number of its series, and every other step is invisible.       *)
THEOREM NumberingImplementsAtomic == Spec => ImplementsAtomicNumbering
<1>1. Init => Atomic!Init
  BY DEF Init, Atomic!Init
<1>2. NumberingInv /\ [Next]_vars => [Atomic!Next]_Atomic!vars
  <2> SUFFICES ASSUME NumberingInv, [Next]_vars
               PROVE  [Atomic!Next]_Atomic!vars
    OBVIOUS
  <2>1. ASSUME NEW r \in Requests, Commit(r)
        PROVE  Atomic!Next
    <3>1. Atomic!Issue(r, creation[r].series)
      BY <2>1, CommitIssuesNext DEF Atomic!Issue
    <3>2. creation[r].series \in Series
      BY <2>1, CommitIssuesNext
    <3> QED
      BY <3>1, <3>2 DEF Atomic!Next
  <2>2. CASE ~ \E r \in Requests : Commit(r)
    BY <2>2, OtherStepsKeepNumbers DEF Atomic!vars
  <2> QED
    BY <2>1, <2>2
<1> QED
  BY <1>1, <1>2, NumberingInvariant, PTL
  DEF Spec, ImplementsAtomicNumbering, Atomic!Spec
=============================================================================
