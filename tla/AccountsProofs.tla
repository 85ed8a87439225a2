--------------------------- MODULE AccountsProofs ---------------------------
(***************************************************************************)
(* Theorems about Accounts, for any number of calls, addresses and         *)
(* passwords, for any scenario and any number of deaths.                   *)
(***************************************************************************)
EXTENDS Accounts, TLAPS

-----------------------------------------------------------------------------
(* The inductive invariant *)

(* A row that a call would insert is not there before.                     *)
RowsAreNew ==
  \A c \in Calls :
    /\ call[c].pc = "idle" => users[c] = None /\ customers[c] = None
    /\ call[c].pc = "read" => users[c] = None

(* Users stay, so that whoever was seen is still there.                    *)
SeenExist ==
  /\ \A u \in Registered : users[u].saw \subseteq Registered
  /\ \A c \in Calls : call[c].saw \subseteq Registered

(* The address of a registration was free when it was checked.             *)
CheckedWasFree ==
  /\ \A u \in Registered : \A v \in users[u].saw :
       users[v].email # users[u].email
  /\ \A c \in Calls :
       call[c].pc = "read" /\ call[c].op = "register" =>
         \A v \in call[c].saw : users[v].email # call[c].email

(* A user is stored as registered, and a token is for a user.              *)
UsersAreAsAsked ==
  /\ \A u \in Registered : <<users[u].email, users[u].password>> = Asked(u)
  /\ \A c \in Calls : call[c].user # None => call[c].user \in Registered

(* A registration has its input, an update has read a customer, which      *)
(* stays, and a login is answered at once.                                 *)
CallsHaveInputs ==
  \A c \in Calls :
    /\ call[c].pc = "read" =>
         /\ call[c].op = "register" =>
              call[c].email \in Emails /\ call[c].password \in Passwords
         /\ call[c].op \in Updating =>
              call[c].customer \in Ids /\ customers[call[c].customer] # None
    /\ call[c].pc \in Working => call[c].op # "login"

AccountsInv ==
  /\ AccountsTypeOK
  /\ RowsAreNew
  /\ SeenExist
  /\ CheckedWasFree
  /\ UsersAreAsAsked
  /\ CallsHaveInputs
  /\ CallsAreAudited
  /\ RightPasswordsAreAccepted

-----------------------------------------------------------------------------
(* The steps of a call, without the grouping into endpoints *)

Step(c) ==
  \/ \E e \in Emails, w \in Passwords : CheckEmail(c, e, w)
  \/ CommitRegistration(c)
  \/ Login(c)
  \/ CreateCustomer(c)
  \/ ReadCustomer(c)
  \/ CommitCustomer(c)
  \/ RejectNull(c)
  \/ UpdateTenant(c)
  \/ LogAudit(c)
  \/ FailAudit(c)
  \/ CrashCall(c)

(* Every step of the system is one of these.                               *)
LEMMA NextIsStep ==
  ASSUME AccountsAssumption, AccountsNext PROVE \E c \in Calls : Step(c)
<1>1. \A e \in Emails : Normal[e] \in Emails
  BY DEF AccountsAssumption
<1> QED
  BY <1>1 DEF AccountsNext, Step, Register, UpdateCustomer

(* The constants are apart from the SQL NULL.                              *)
LEMMA NoneIsApart ==
  ASSUME AccountsAssumption
  PROVE  /\ None \notin Ids /\ None \notin User /\ None \notin Customer
         /\ Calls \subseteq Ids /\ Seeded \subseteq Ids
         /\ \A c \in Calls : c \notin Seeded
  BY DEF AccountsAssumption, Ids

-----------------------------------------------------------------------------
(* What a step does to the record of its call *)

(* A call begins with what its handler reads first.                        *)
LEMMA Begin ==
  ASSUME AccountsTypeOK, NEW c \in Calls, NEW new \in Call,
         call' = [call EXCEPT ![c] = new]
  PROVE  /\ call' \in [Calls -> Call]
         /\ call'[c] = new
         /\ \A d \in Calls : d # c => call'[d] = call[d]
  BY DEF AccountsTypeOK

(* A call that goes on keeps what it has read.                             *)
LEMMA GoOn ==
  ASSUME AccountsTypeOK, NEW c \in Calls, NEW pc \in Working \cup Finished,
         Goto(c, pc)
  PROVE  /\ call' \in [Calls -> Call]
         /\ call'[c] = [call[c] EXCEPT !.pc = pc]
         /\ \A d \in Calls : d # c => call'[d] = call[d]
<1>1. call[c] \in Call
  BY DEF AccountsTypeOK
<1>2. [call[c] EXCEPT !.pc = pc] \in Call
  BY <1>1 DEF Call
<1>3. call' = [call EXCEPT ![c] = [call[c] EXCEPT !.pc = pc]]
  BY DEF Goto
<1> QED
  BY <1>2, <1>3 DEF AccountsTypeOK

(* A committed registration has a token for its user.                      *)
LEMMA Committed ==
  ASSUME AccountsAssumption, AccountsTypeOK, NEW c \in Calls,
         CommitRegistration(c)
  PROVE  /\ call' \in [Calls -> Call]
         /\ call'[c] = [call[c] EXCEPT !.pc = "committed", !.user = c]
         /\ \A d \in Calls : d # c => call'[d] = call[d]
         /\ users' = [users EXCEPT ![c] = [email |-> call[c].email,
                          password |-> call[c].password, saw |-> call[c].saw]]
<1> DEFINE new == [call[c] EXCEPT !.pc = "committed", !.user = c]
<1>1. call[c] \in Call
  BY DEF AccountsTypeOK
<1>2. new \in Call
  BY <1>1, NoneIsApart DEF Call, Working
<1>3. call' = [call EXCEPT ![c] = new]
  BY DEF CommitRegistration, AccountsTypeOK
<1> HIDE DEF new
<1>4. /\ call' \in [Calls -> Call]
      /\ call'[c] = new
      /\ \A d \in Calls : d # c => call'[d] = call[d]
  BY <1>2, <1>3, Begin
<1> QED
  BY <1>4 DEF new, CommitRegistration

(* An update or a deletion of a customer writes who did it, and is_active   *)
(* when it changes what was read.                                          *)
LEMMA CustomerWritten ==
  ASSUME AccountsAssumption, AccountsTypeOK, CallsHaveInputs,
         NEW c \in Calls, CommitCustomer(c),
         NEW k, k = call[c].customer
  PROVE  /\ k \in Ids /\ customers[k] \in Customer
         /\ customers' \in [Ids -> Customer \cup {None}]
         /\ customers'[k] \in Customer
         /\ customers'[k].by = c
         /\ Wanted(c) = call[c].active => customers'[k].active = customers[k].active
         /\ Wanted(c) # call[c].active => customers'[k].active = Wanted(c)
         /\ \A j \in Ids : j # k => customers'[j] = customers[j]
<1>1. k \in Ids /\ customers[k] \in Customer
  BY DEF CommitCustomer, CallsHaveInputs, AccountsTypeOK
<1> DEFINE active == IF Wanted(c) = call[c].active
                       THEN customers[k].active ELSE Wanted(c)
           new    == [customers[k] EXCEPT !.by = c, !.active = active]
<1>2. active \in BOOLEAN
  BY <1>1 DEF Wanted, AccountsTypeOK, Call, Customer
<1>3. customers' = [customers EXCEPT ![k] = new]
  BY <1>1 DEF CommitCustomer, AccountsTypeOK, Customer
<1> HIDE DEF active
<1>4. new \in Customer /\ new.by = c /\ new.active = active
  BY <1>1, <1>2, NoneIsApart DEF Customer
<1> HIDE DEF new
<1>5. /\ customers' \in [Ids -> Customer \cup {None}]
      /\ customers'[k] = new
      /\ \A j \in Ids : j # k => customers'[j] = customers[j]
  BY <1>1, <1>3, <1>4 DEF AccountsTypeOK
<1> QED
  BY <1>1, <1>4, <1>5 DEF active

-----------------------------------------------------------------------------
(* Types *)

(* Every step keeps the types of the rows and of the calls.                *)
LEMMA TypeStep ==
  ASSUME AccountsAssumption, AccountsTypeOK, CallsHaveInputs,
         NEW c \in Calls, Step(c)
  PROVE  AccountsTypeOK'
<1> DEFINE Quiet == UNCHANGED <<users, customers, settings, audit, offered,
                                crashes>>
<1>0. ASSUME Quiet, call' \in [Calls -> Call] PROVE AccountsTypeOK'
  BY <1>0 DEF AccountsTypeOK
<1>1. ASSUME NEW e \in Emails, NEW w \in Passwords, CheckEmail(c, e, w)
      PROVE  AccountsTypeOK'
  <2> DEFINE new == [Idle EXCEPT
                !.pc = IF SelectUsers(e) = {} THEN "read" ELSE "refused",
                !.op = "register", !.email = e, !.password = w,
                !.saw = Registered]
  <2>1. new \in Call
    BY DEF Idle, Call, Working, Finished, AccountOperations, CustomerEdits,
           Registered
  <2>2. call' = [call EXCEPT ![c] = new] /\ Quiet
    BY <1>1 DEF CheckEmail
  <2> HIDE DEF new
  <2> QED
    BY <1>0, <2>1, <2>2, Begin
<1>2. CASE CommitRegistration(c)
  <2>1. call[c] \in Call
    BY DEF AccountsTypeOK
  <2> DEFINE new == [email |-> call[c].email, password |-> call[c].password,
                     saw |-> call[c].saw]
  <2>2. new \in User
    BY <1>2, <2>1 DEF CommitRegistration, CallsHaveInputs, Call, User
  <2>3. users' \in [Ids -> User \cup {None}]
    <3>1. users' = [users EXCEPT ![c] = new]
      BY <1>2 DEF CommitRegistration
    <3> HIDE DEF new
    <3> QED
      BY <2>2, <3>1 DEF AccountsTypeOK
  <2>4. call' \in [Calls -> Call]
    BY <1>2, Committed
  <2> QED
    BY <1>2, <2>3, <2>4 DEF CommitRegistration, AccountsTypeOK
<1>3. CASE Login(c)
  <2>1. PICK e \in Emails, w \in Passwords, u \in Ids \cup {None},
             pc \in {"served", "refused"}, v \in Ids \cup {None} :
          call' = [call EXCEPT ![c] =
            [Idle EXCEPT !.pc = pc, !.op = "login", !.email = e,
                         !.password = w, !.saw = Registered, !.user = v]]
    BY <1>3 DEF Login
  <2> DEFINE new == [Idle EXCEPT !.pc = pc, !.op = "login", !.email = e,
                         !.password = w, !.saw = Registered, !.user = v]
  <2>2. new \in Call
    BY DEF Idle, Call, Working, Finished, AccountOperations, CustomerEdits,
           Registered
  <2>3. Quiet
    BY <1>3 DEF Login
  <2> HIDE DEF new
  <2> QED
    BY <1>0, <2>1, <2>2, <2>3, Begin DEF new
<1>4. CASE CreateCustomer(c)
  <2> DEFINE new == [Idle EXCEPT !.pc = "committed", !.op = "create_customer"]
  <2>1. PICK u \in CurrentUsers :
          customers' = [customers EXCEPT ![c] =
                          [tenant |-> u, active |-> TRUE, by |-> c]]
    BY <1>4 DEF CreateCustomer
  <2>2. u \in Ids
    BY NoneIsApart DEF CurrentUsers, AccountsTypeOK, Call
  <2>3. customers' \in [Ids -> Customer \cup {None}]
    BY <2>1, <2>2, NoneIsApart DEF AccountsTypeOK, Customer
  <2>4. new \in Call
    BY DEF Idle, Call, Working, Finished, AccountOperations, CustomerEdits
  <2>5. call' = [call EXCEPT ![c] = new]
        /\ UNCHANGED <<users, settings, audit, offered, crashes>>
    BY <1>4 DEF CreateCustomer
  <2> HIDE DEF new
  <2>6. call' \in [Calls -> Call]
    BY <2>4, <2>5, Begin
  <2> QED
    BY <2>3, <2>5, <2>6 DEF AccountsTypeOK
<1>5. CASE ReadCustomer(c)
  <2>1. PICK u \in CurrentUsers, op \in Updating, k \in Ids,
             edit \in CustomerEdits :
          /\ k \in CustomersOf(u)
          /\ call' = [call EXCEPT ![c] =
               [Idle EXCEPT !.pc = "read", !.op = op, !.customer = k,
                            !.active = customers[k].active, !.edit = edit]]
    BY <1>5 DEF ReadCustomer, CustomersOf
  <2> DEFINE new == [Idle EXCEPT !.pc = "read", !.op = op, !.customer = k,
                         !.active = customers[k].active, !.edit = edit]
  <2>2. k \in Ids /\ customers[k] \in Customer
    BY <2>1 DEF CustomersOf, AccountsTypeOK
  <2>3. customers[k].active \in BOOLEAN
    BY <2>2 DEF Customer
  <2>4. new \in Call
    BY <2>2, <2>3 DEF Idle, Call, Working, AccountOperations
  <2>5. Quiet
    BY <1>5 DEF ReadCustomer
  <2> HIDE DEF new
  <2> QED
    BY <1>0, <2>1, <2>4, <2>5, Begin DEF new
<1>6. CASE CommitCustomer(c)
  <2>1. customers' \in [Ids -> Customer \cup {None}]
    BY <1>6, CustomerWritten
  <2>2. call' \in [Calls -> Call]
    BY <1>6, GoOn DEF CommitCustomer, Working
  <2> QED
    BY <1>6, <2>1, <2>2 DEF CommitCustomer, AccountsTypeOK
<1>7. CASE RejectNull(c)
  BY <1>7, <1>0, GoOn DEF RejectNull, Finished
<1>8. CASE LogAudit(c)
  <2>1. call' \in [Calls -> Call]
    BY <1>8, GoOn DEF LogAudit, Finished
  <2> QED
    BY <1>8, <2>1 DEF LogAudit, AccountsTypeOK
<1>9. CASE CrashCall(c)
  <2>1. call' \in [Calls -> Call]
    BY <1>9, GoOn DEF CrashCall, Finished
  <2> QED
    BY <1>9, <2>1 DEF CrashCall, AccountsTypeOK
<1>10. CASE UpdateTenant(c)
  <2>1. PICK u \in CurrentUsers, edit \in TenantEdits,
             pc \in {"refused", "committed"} :
          /\ settings' = IF edit = "null" THEN settings
                          ELSE [settings EXCEPT ![u] = c]
          /\ call' = [call EXCEPT ![c] =
               [Idle EXCEPT !.pc = pc, !.op = "update_tenant", !.edit = edit]]
    BY <1>10 DEF UpdateTenant
  <2> DEFINE new == [Idle EXCEPT !.pc = pc, !.op = "update_tenant",
                                 !.edit = edit]
  <2>2. new \in Call
    BY DEF Idle, Call, Working, Finished, AccountOperations
  <2>3. settings' \in [Ids -> Calls \cup {None}]
    BY <2>1 DEF AccountsTypeOK
  <2> HIDE DEF new
  <2>4. call' \in [Calls -> Call]
    BY <2>1, <2>2, Begin DEF new
  <2> QED
    BY <1>10, <2>3, <2>4 DEF UpdateTenant, AccountsTypeOK
<1>11. CASE FailAudit(c)
  BY <1>11, <1>0, GoOn DEF FailAudit, Finished
<1> QED
  BY <1>1, <1>2, <1>3, <1>4, <1>5, <1>6, <1>7, <1>8, <1>9, <1>10, <1>11
     DEF Step

-----------------------------------------------------------------------------
(* What a step leaves alone *)

(* The other calls stay where they are.                                    *)
LEMMA OthersStay ==
  ASSUME AccountsTypeOK, NEW c \in Calls, Step(c), NEW d \in Calls, d # c
  PROVE  call'[d] = call[d]
  BY DEF Step, CheckEmail, CommitRegistration, Login, CreateCustomer,
         ReadCustomer, CommitCustomer, RejectNull, UpdateTenant, LogAudit,
         FailAudit, CrashCall, Goto, AccountsTypeOK

(* A call that has begun does not begin again, and one that has committed  *)
(* only writes its audit entry or dies.                                    *)
LEMMA CallGoesOn ==
  ASSUME AccountsTypeOK, NEW c \in Calls, Step(c)
  PROVE  /\ call[c].pc \in {"idle"} \cup Working
         /\ call[c].pc # "idle" =>
              \/ CommitRegistration(c)
              \/ \E pc \in Working \cup Finished : Goto(c, pc) /\ UNCHANGED users
         /\ call[c].pc = "committed" =>
              LogAudit(c) \/ FailAudit(c) \/ CrashCall(c)
  BY DEF Step, CheckEmail, CommitRegistration, Login, CreateCustomer,
         ReadCustomer, CommitCustomer, RejectNull, UpdateTenant, LogAudit,
         FailAudit, CrashCall, Arrives, Working, Finished

(* A user stays as it was stored, and as it was asked for.                 *)
LEMMA UsersStay ==
  ASSUME AccountsAssumption, AccountsTypeOK, RowsAreNew,
         NEW c \in Calls, Step(c), NEW u \in Registered
  PROVE  /\ u \in Registered'
         /\ users'[u] = users[u]
         /\ Asked(u)' = Asked(u)
<1>1. u \in Ids /\ users[u] # None
  BY DEF Registered
<1>2. users'[u] = users[u]
  <2>1. CASE CommitRegistration(c)
    <3>1. users[c] = None
      BY <2>1 DEF CommitRegistration, RowsAreNew
    <3> QED
      BY <1>1, <2>1, <3>1 DEF CommitRegistration, AccountsTypeOK
  <2>2. CASE UNCHANGED users
    BY <2>2
  <2> QED
    BY <2>1, <2>2 DEF Step, CheckEmail, Login, CreateCustomer, ReadCustomer,
       CommitCustomer, RejectNull, UpdateTenant, LogAudit, FailAudit, CrashCall
<1>3. Asked(u)' = Asked(u)
  <2>1. CASE u \in Seeded
    BY <2>1 DEF Asked
  <2>2. CASE u \in Calls /\ u # c
    BY <2>2, OthersStay DEF Asked
  <2>3. CASE u = c
    <3>1. call[c].pc \notin {"idle", "read"}
      BY <1>1, <2>3 DEF RowsAreNew
    <3>2. PICK pc \in Working \cup Finished : Goto(c, pc)
      BY <3>1, CallGoesOn DEF CommitRegistration
    <3>3. call[c] \in Call /\ call'[c] = [call[c] EXCEPT !.pc = pc]
      BY <3>2, GoOn DEF AccountsTypeOK
    <3>4. call'[c].email = call[c].email /\ call'[c].password = call[c].password
      BY <3>3 DEF Call
    <3> QED
      BY <2>3, <3>4 DEF Asked
  <2> QED
    BY <1>1, <2>1, <2>2, <2>3 DEF Ids
<1> QED
  BY <1>1, <1>2, <1>3 DEF Registered

(* A customer is never removed.                                            *)
LEMMA CustomersStay ==
  ASSUME AccountsAssumption, AccountsTypeOK, CallsHaveInputs,
         NEW c \in Calls, Step(c), NEW k \in Ids, customers[k] # None,
         AccountsTypeOK'
  PROVE  customers'[k] # None
<1>1. CASE CreateCustomer(c)
  <2>1. PICK new : customers' = [customers EXCEPT ![c] = new] /\ new # None
    <3>1. PICK u \in CurrentUsers :
            customers' = [customers EXCEPT ![c] =
                            [tenant |-> u, active |-> TRUE, by |-> c]]
      BY <1>1 DEF CreateCustomer
    <3>2. u \in Ids
      BY NoneIsApart DEF CurrentUsers, AccountsTypeOK, Call
    <3>3. [tenant |-> u, active |-> TRUE, by |-> c] \in Customer
      BY <3>2, NoneIsApart DEF Customer
    <3> QED
      BY <3>1, <3>3, NoneIsApart
  <2> QED
    BY <2>1 DEF AccountsTypeOK
<1>2. CASE CommitCustomer(c)
  BY <1>2, CustomerWritten, NoneIsApart
<1>3. CASE UNCHANGED customers
  BY <1>3
<1> QED
  BY <1>1, <1>2, <1>3 DEF Step, CheckEmail, CommitRegistration, Login,
     ReadCustomer, RejectNull, UpdateTenant, LogAudit, FailAudit, CrashCall

-----------------------------------------------------------------------------
(* Where a call is after a step *)

(* A registration that waits to commit has found its address free.         *)
LEMMA CheckEmailCall ==
  ASSUME AccountsTypeOK, NEW c \in Calls, NEW e, NEW w, CheckEmail(c, e, w)
  PROVE  /\ call[c].pc = "idle"
         /\ call'[c].pc \in {"read", "refused"}
         /\ call'[c].pc = "read" => SelectUsers(e) = {}
         /\ call'[c].op = "register"
         /\ call'[c].email = e
         /\ call'[c].password = w
         /\ call'[c].saw = Registered
         /\ call'[c].user = None
         /\ UNCHANGED <<users, customers, settings, audit>>
  BY DEF CheckEmail, Arrives, AccountsTypeOK, Idle

(* A login has looked among all users.                                     *)
LEMMA LoginCall ==
  ASSUME AccountsTypeOK, NEW c \in Calls, Login(c)
  PROVE  /\ call[c].pc = "idle"
         /\ call'[c].pc \in {"served", "refused"}
         /\ call'[c].op = "login"
         /\ call'[c].saw = Registered
         /\ UNCHANGED <<users, customers, settings, audit>>
         /\ \E u \in Ids \cup {None} :
              /\ u \in SelectUsers(call'[c].email)
                   \/ SelectUsers(call'[c].email) = {}
              /\ IF /\ u \in SelectUsers(call'[c].email)
                    /\ users[u].password = call'[c].password
                   THEN call'[c].pc = "served" /\ call'[c].user = u
                   ELSE call'[c].pc = "refused" /\ call'[c].user = None
<1>1. PICK e \in Emails, w \in Passwords, u \in Ids \cup {None} :
        /\ Arrives(c, "login")
        /\ u \in SelectUsers(e) \/ SelectUsers(e) = {}
        /\ call' = [call EXCEPT ![c] =
             [Idle EXCEPT
                !.pc = IF u \in SelectUsers(e) /\ users[u].password = w
                         THEN "served" ELSE "refused",
                !.op = "login", !.email = e, !.password = w,
                !.saw = Registered,
                !.user = IF u \in SelectUsers(e) /\ users[u].password = w
                           THEN u ELSE None]]
        /\ UNCHANGED <<users, customers, settings, audit, offered, crashes>>
  BY DEF Login
<1>2. /\ call'[c].pc = IF u \in SelectUsers(e) /\ users[u].password = w
                         THEN "served" ELSE "refused"
      /\ call'[c].op = "login"
      /\ call'[c].email = e
      /\ call'[c].password = w
      /\ call'[c].saw = Registered
      /\ call'[c].user = IF u \in SelectUsers(e) /\ users[u].password = w
                           THEN u ELSE None
  BY <1>1 DEF AccountsTypeOK, Idle
<1> QED
  BY <1>1, <1>2 DEF Arrives

(* A creation of a customer has committed at once.                         *)
LEMMA CreateCustomerCall ==
  ASSUME AccountsTypeOK, NEW c \in Calls, CreateCustomer(c)
  PROVE  /\ call[c].pc = "idle"
         /\ call'[c].pc = "committed"
         /\ call'[c].op = "create_customer"
         /\ call'[c].saw = {}
         /\ call'[c].user = None
         /\ UNCHANGED <<users, settings, audit>>
  BY DEF CreateCustomer, Arrives, AccountsTypeOK, Idle

(* An update of a customer has read one.                                   *)
LEMMA ReadCustomerCall ==
  ASSUME AccountsTypeOK, NEW c \in Calls, ReadCustomer(c)
  PROVE  /\ call[c].pc = "idle"
         /\ call'[c].pc = "read"
         /\ call'[c].op \in Updating
         /\ call'[c].saw = {}
         /\ call'[c].user = None
         /\ call'[c].customer \in Ids
         /\ customers[call'[c].customer] # None
         /\ UNCHANGED <<users, customers, settings, audit>>
<1>1. PICK op \in Updating, k \in Ids, edit \in CustomerEdits :
        /\ Arrives(c, op)
        /\ customers[k] # None
        /\ call' = [call EXCEPT ![c] =
             [Idle EXCEPT !.pc = "read", !.op = op, !.customer = k,
                          !.active = customers[k].active, !.edit = edit]]
        /\ UNCHANGED <<users, customers, settings, audit, offered, crashes>>
  BY DEF ReadCustomer, CustomersOf
<1>2. /\ call'[c].pc = "read"
      /\ call'[c].op = op
      /\ call'[c].saw = {}
      /\ call'[c].user = None
      /\ call'[c].customer = k
  BY <1>1 DEF AccountsTypeOK, Idle
<1> QED
  BY <1>1, <1>2 DEF Arrives

(* A change of the settings is committed at once, or refused.              *)
LEMMA UpdateTenantCall ==
  ASSUME AccountsTypeOK, NEW c \in Calls, UpdateTenant(c)
  PROVE  /\ call[c].pc = "idle"
         /\ call'[c].pc \in {"committed", "refused"}
         /\ call'[c].op = "update_tenant"
         /\ call'[c].saw = {}
         /\ call'[c].user = None
         /\ call'[c].pc = "refused" => UNCHANGED settings
         /\ \A t \in Ids : settings'[t] \in {settings[t], c}
         /\ UNCHANGED <<users, customers, audit>>
<1>1. PICK u \in CurrentUsers, edit \in TenantEdits :
        /\ Arrives(c, "update_tenant")
        /\ settings' = IF edit = "null" THEN settings
                        ELSE [settings EXCEPT ![u] = c]
        /\ call' = [call EXCEPT ![c] =
             [Idle EXCEPT
                !.pc = IF edit = "null" THEN "refused" ELSE "committed",
                !.op = "update_tenant", !.edit = edit]]
        /\ UNCHANGED <<users, customers, audit, offered, crashes>>
  BY DEF UpdateTenant
<1>2. /\ call'[c].pc = IF edit = "null" THEN "refused" ELSE "committed"
      /\ call'[c].op = "update_tenant"
      /\ call'[c].saw = {}
      /\ call'[c].user = None
  BY <1>1 DEF AccountsTypeOK, Idle
<1>3. \A t \in Ids : settings'[t] \in {settings[t], c}
  BY <1>1 DEF AccountsTypeOK
<1> QED
  BY <1>1, <1>2, <1>3 DEF Arrives

(* A call that goes on keeps what it has.                                  *)
LEMMA GoOnCall ==
  ASSUME AccountsTypeOK, NEW c \in Calls, NEW pc \in Working \cup Finished,
         Goto(c, pc)
  PROVE  /\ call'[c].pc = pc
         /\ call'[c].op = call[c].op
         /\ call'[c].email = call[c].email
         /\ call'[c].password = call[c].password
         /\ call'[c].saw = call[c].saw
         /\ call'[c].user = call[c].user
         /\ call'[c].customer = call[c].customer
         /\ call'[c].edit = call[c].edit
<1>1. call[c] \in Call /\ call'[c] = [call[c] EXCEPT !.pc = pc]
  BY GoOn DEF AccountsTypeOK
<1> QED
  BY <1>1 DEF Call

(* A registration that commits keeps what it has, and gets its token.      *)
LEMMA CommittedCall ==
  ASSUME AccountsAssumption, AccountsTypeOK, NEW c \in Calls,
         CommitRegistration(c)
  PROVE  /\ call[c].pc = "read"
         /\ call[c].op = "register"
         /\ call'[c].pc = "committed"
         /\ call'[c].op = call[c].op
         /\ call'[c].email = call[c].email
         /\ call'[c].password = call[c].password
         /\ call'[c].saw = call[c].saw
         /\ call'[c].user = c
         /\ users'[c].email = call[c].email
         /\ users'[c].password = call[c].password
         /\ users'[c].saw = call[c].saw
         /\ \A u \in Ids : u # c => users'[u] = users[u]
         /\ UNCHANGED <<customers, settings, audit>>
         /\ c \in Ids
<1> DEFINE new == [email |-> call[c].email, password |-> call[c].password,
                   saw |-> call[c].saw]
<1>1. c \in Ids /\ call[c] \in Call
  BY NoneIsApart DEF AccountsTypeOK
<1>2. call'[c] = [call[c] EXCEPT !.pc = "committed", !.user = c]
  BY Committed
<1>3. users' = [users EXCEPT ![c] = new]
  BY DEF CommitRegistration
<1>4. /\ new.email = call[c].email
      /\ new.password = call[c].password
      /\ new.saw = call[c].saw
  OBVIOUS
<1>5. /\ call'[c].pc = "committed"
      /\ call'[c].op = call[c].op
      /\ call'[c].email = call[c].email
      /\ call'[c].password = call[c].password
      /\ call'[c].saw = call[c].saw
      /\ call'[c].user = c
  BY <1>1, <1>2 DEF Call
<1> HIDE DEF new
<1>6. users'[c] = new /\ \A u \in Ids : u # c => users'[u] = users[u]
  BY <1>1, <1>3 DEF AccountsTypeOK
<1> QED
  BY <1>1, <1>4, <1>5, <1>6 DEF CommitRegistration

(* A registration that commits has stored its user.                        *)
LEMMA Registers ==
  ASSUME AccountsAssumption, AccountsTypeOK, CallsHaveInputs,
         NEW c \in Calls, CommitRegistration(c)
  PROVE  c \in Registered'
<1> DEFINE new == [email |-> call[c].email, password |-> call[c].password,
                   saw |-> call[c].saw]
<1>1. new \in User
  BY DEF CommitRegistration, CallsHaveInputs, AccountsTypeOK, Call, User
<1>2. users' = [users EXCEPT ![c] = new]
  BY DEF CommitRegistration
<1> HIDE DEF new
<1>3. users'[c] = new
  BY <1>2, NoneIsApart DEF AccountsTypeOK
<1> QED
  BY <1>1, <1>3, NoneIsApart DEF Registered

(* The ways of a step.                                                     *)
LEMMA CallStep ==
  ASSUME AccountsAssumption, AccountsTypeOK, NEW c \in Calls, Step(c)
  PROVE  \/ \E e \in Emails, w \in Passwords : CheckEmail(c, e, w)
         \/ CommitRegistration(c)
         \/ Login(c)
         \/ CreateCustomer(c)
         \/ ReadCustomer(c)
         \/ /\ call[c].pc = "read"
            /\ Goto(c, "committed")
            /\ CommitCustomer(c)
            /\ UNCHANGED <<users, settings, audit>>
         \/ /\ call[c].pc = "read"
            /\ Goto(c, "refused")
            /\ UNCHANGED <<users, customers, settings, audit>>
         \/ /\ call[c].pc = "committed"
            /\ Goto(c, "served")
            /\ audit' = audit \cup {c}
            /\ UNCHANGED <<users, customers, settings>>
         \/ UpdateTenant(c)
         \/ /\ call[c].pc = "committed"
            /\ call[c].edit = "dates"
            /\ Goto(c, "failed")
            /\ UNCHANGED <<users, customers, settings, audit>>
         \/ /\ call[c].pc \in Working
            /\ Goto(c, "crashed")
            /\ UNCHANGED <<users, customers, settings, audit>>
  BY DEF Step, CommitCustomer, RejectNull, UpdateTenant, LogAudit, FailAudit,
         CrashCall

(* Only a registration, when it commits, adds a user.                      *)
LEMMA NewUser ==
  ASSUME AccountsAssumption, AccountsTypeOK, NEW c \in Calls, Step(c),
         NEW u \in Registered', u \notin Registered
  PROVE  CommitRegistration(c) /\ u = c
<1>1. u \in Ids /\ users[u] # users'[u]
  BY DEF Registered
<1> QED
  BY <1>1, CallStep, CommittedCall, CheckEmailCall, LoginCall,
     CreateCustomerCall, ReadCustomerCall, UpdateTenantCall

(* A call that goes on to something else than reading has read before.     *)
LEMMA JustRead ==
  ASSUME AccountsAssumption, AccountsTypeOK, NEW c \in Calls, Step(c),
         call'[c].pc = "read"
  PROVE  \/ \E e \in Emails, w \in Passwords : CheckEmail(c, e, w)
         \/ ReadCustomer(c)
<1>1. ASSUME NEW pc \in Finished \cup {"committed"}, Goto(c, pc)
      PROVE  call'[c].pc = pc
  BY <1>1, GoOnCall DEF Working, Finished
<1> QED
  BY <1>1, CallStep, CommittedCall, LoginCall, CreateCustomerCall,
     UpdateTenantCall DEF Finished

-----------------------------------------------------------------------------
(* One lemma per conjunct of the inductive invariant *)

(* A call that has not committed has no row, and keeps having none.        *)
LEMMA RowsAreNewStep ==
  ASSUME AccountsAssumption, AccountsTypeOK, RowsAreNew, CallsHaveInputs,
         NEW c \in Calls, Step(c)
  PROVE  RowsAreNew'
<1> SUFFICES ASSUME NEW d \in Calls
             PROVE  /\ call'[d].pc = "idle" => users'[d] = None /\ customers'[d] = None
                    /\ call'[d].pc = "read" => users'[d] = None
  BY DEF RowsAreNew
<1>1. d \in Ids
  BY NoneIsApart
<1>2. CASE d # c
  <2>1. call'[d] = call[d]
    BY <1>2, OthersStay
  <2>2. users'[d] = users[d]
    BY <1>1, <1>2, CallStep, CommittedCall, CheckEmailCall, LoginCall,
       CreateCustomerCall, ReadCustomerCall, UpdateTenantCall
  <2>3. call[d].pc = "idle" => customers'[d] = None
    <3>1. CASE CommitCustomer(c)
      <4>1. PICK k : k = call[c].customer
        OBVIOUS
      <4>2. call[d].pc = "idle" => d # k
        BY <3>1, <4>1, CustomerWritten, NoneIsApart DEF RowsAreNew
      <4> QED
        BY <1>1, <3>1, <4>1, <4>2, CustomerWritten DEF RowsAreNew
    <3>2. CASE CreateCustomer(c)
      BY <1>1, <1>2, <3>2 DEF CreateCustomer, AccountsTypeOK, RowsAreNew
    <3>3. CASE UNCHANGED customers
      BY <3>3 DEF RowsAreNew
    <3> QED
      BY <3>1, <3>2, <3>3 DEF Step, CheckEmail, CommitRegistration, Login,
         ReadCustomer, RejectNull, UpdateTenant, LogAudit, FailAudit, CrashCall
  <2> QED
    BY <2>1, <2>2, <2>3 DEF RowsAreNew
<1>3. CASE d = c
  <2>1. ASSUME NEW pc \in Finished \cup {"committed"}, Goto(c, pc)
        PROVE  call'[c].pc = pc
    BY <2>1, GoOnCall DEF Working, Finished
  <2>2. call'[c].pc # "idle"
    BY <2>1, CallStep, CommittedCall, CheckEmailCall, LoginCall,
       CreateCustomerCall, ReadCustomerCall, UpdateTenantCall
       DEF Finished
  <2>3. call'[c].pc = "read" => UNCHANGED users /\ call[c].pc = "idle"
    BY <2>1, CallStep, CommittedCall, CheckEmailCall, LoginCall,
       CreateCustomerCall, ReadCustomerCall, UpdateTenantCall
       DEF Finished
  <2> QED
    BY <1>3, <2>2, <2>3 DEF RowsAreNew
<1> QED
  BY <1>2, <1>3

(* What a call has seen after a step: what it had, or everyone there is.   *)
LEMMA SawStep ==
  ASSUME AccountsAssumption, AccountsTypeOK, NEW c \in Calls, Step(c)
  PROVE  call'[c].saw \in {call[c].saw, Registered, {}}
<1>1. ASSUME NEW pc \in Finished \cup {"committed"}, Goto(c, pc)
      PROVE  call'[c].saw = call[c].saw
  BY <1>1, GoOnCall DEF Working, Finished
<1> QED
  BY <1>1, CallStep, CommittedCall, CheckEmailCall, LoginCall,
     CreateCustomerCall, ReadCustomerCall, UpdateTenantCall
       DEF Finished

(* Users are never deleted, so that those seen still exist.                *)
LEMMA SeenExistStep ==
  ASSUME AccountsAssumption, AccountsTypeOK, RowsAreNew, SeenExist,
         NEW c \in Calls, Step(c)
  PROVE  SeenExist'
<1>1. Registered \subseteq Registered'
  BY UsersStay
<1>2. \A d \in Calls : call'[d].saw \subseteq Registered'
  BY <1>1, SawStep, OthersStay DEF SeenExist
<1>3. ASSUME NEW u \in Registered' PROVE users'[u].saw \subseteq Registered'
  <2>1. CASE u \in Registered
    BY <1>1, <2>1, UsersStay DEF SeenExist
  <2>2. CASE u \notin Registered
    <3>1. CommitRegistration(c) /\ u = c
      BY <1>3, <2>2, NewUser
    <3>2. users'[c].saw = call[c].saw
      BY <3>1, NoneIsApart DEF CommitRegistration, AccountsTypeOK
    <3> QED
      BY <1>1, <3>1, <3>2 DEF SeenExist
  <2> QED
    BY <2>1, <2>2
<1> QED
  BY <1>2, <1>3 DEF SeenExist

(* A step that leaves a registration waiting has just checked its address, *)
(* or is another call's.                                                   *)
LEMMA CheckedWasFreeStep ==
  ASSUME AccountsAssumption, AccountsTypeOK, RowsAreNew, SeenExist,
         CheckedWasFree, NEW c \in Calls, Step(c)
  PROVE  CheckedWasFree'
<1>1. ASSUME NEW d \in Calls, call'[d].pc = "read", call'[d].op = "register",
             NEW v \in call'[d].saw
      PROVE  users'[v].email # call'[d].email
  <2>1. CASE d # c
    <3>1. call'[d] = call[d]
      BY <2>1, OthersStay
    <3>2. v \in Registered /\ users[v].email # call[d].email
      BY <1>1, <3>1 DEF SeenExist, CheckedWasFree
    <3> QED
      BY <3>1, <3>2, UsersStay
  <2>2. CASE d = c
    <3>1. PICK e \in Emails, w \in Passwords : CheckEmail(c, e, w)
      BY <1>1, <2>2, JustRead, ReadCustomerCall, UpdateTenantCall DEF Updating
    <3>2. /\ call'[c].email = e
          /\ call'[c].saw = Registered
          /\ SelectUsers(e) = {}
      BY <1>1, <2>2, <3>1, CheckEmailCall
    <3>3. v \in Registered /\ users[v].email # e
      BY <1>1, <2>2, <3>2 DEF SelectUsers
    <3> QED
      BY <2>2, <3>2, <3>3, UsersStay
  <2> QED
    BY <2>1, <2>2
<1>2. ASSUME NEW u \in Registered', NEW v \in users'[u].saw
      PROVE  users'[v].email # users'[u].email
  <2>1. CASE u \in Registered
    <3>1. users'[u] = users[u] /\ v \in Registered
      BY <1>2, <2>1, UsersStay DEF SeenExist
    <3> QED
      BY <1>2, <2>1, <3>1, UsersStay DEF CheckedWasFree
  <2>2. CASE u \notin Registered
    <3>1. CommitRegistration(c) /\ u = c
      BY <1>2, <2>2, NewUser
    <3>2. users'[c].saw = call[c].saw /\ users'[c].email = call[c].email
      BY <3>1, NoneIsApart DEF CommitRegistration, AccountsTypeOK
    <3>3. v \in Registered /\ users[v].email # call[c].email
      BY <1>2, <3>1, <3>2 DEF SeenExist, CheckedWasFree, CommitRegistration
    <3> QED
      BY <3>1, <3>2, <3>3, UsersStay
  <2> QED
    BY <2>1, <2>2
<1> QED
  BY <1>1, <1>2 DEF CheckedWasFree

(* A new user is stored as its registration asked.                         *)
LEMMA UsersAreAsAskedStep ==
  ASSUME AccountsAssumption, AccountsTypeOK, RowsAreNew, UsersAreAsAsked,
         CallsHaveInputs,
         NEW c \in Calls, Step(c)
  PROVE  UsersAreAsAsked'
<1>1. ASSUME NEW u \in Registered'
      PROVE  <<users'[u].email, users'[u].password>> = Asked(u)'
  <2>1. CASE u \in Registered
    BY <2>1, UsersStay DEF UsersAreAsAsked
  <2>2. CASE u \notin Registered
    <3>1. CommitRegistration(c) /\ u = c
      BY <1>1, <2>2, NewUser
    <3> QED
      BY <3>1, CommittedCall, NoneIsApart DEF Asked
  <2> QED
    BY <2>1, <2>2
<1>2. ASSUME NEW d \in Calls, call'[d].user # None
      PROVE  call'[d].user \in Registered'
  <2>1. CASE call'[d].user = call[d].user
    BY <1>2, <2>1, UsersStay DEF UsersAreAsAsked
  <2>2. CASE call'[d].user # call[d].user
    <3>1. d = c
      BY <2>2, OthersStay
    <3>2. ~\E pc \in Working \cup Finished : Goto(c, pc)
      BY <2>2, <3>1, GoOnCall
    <3>3. CASE CommitRegistration(c)
      <4>1. c \in Registered'
        BY <3>3, Registers
      <4> QED
        BY <3>1, <3>3, <4>1, CommittedCall
    <3>4. CASE Login(c)
      <4>1. call'[d].user \in Registered
        BY <1>2, <3>1, <3>4, LoginCall DEF SelectUsers
      <4> QED
        BY <4>1, UsersStay
    <3> QED
      BY <1>2, <3>1, <3>2, <3>3, <3>4, CallStep, CheckEmailCall,
         CreateCustomerCall, ReadCustomerCall, UpdateTenantCall
         DEF Working, Finished
  <2> QED
    BY <2>1, <2>2
<1> QED
  BY <1>1, <1>2 DEF UsersAreAsAsked

(* A call keeps the inputs it was asked with, and customers stay.          *)
LEMMA CallsHaveInputsStep ==
  ASSUME AccountsAssumption, AccountsTypeOK, CallsHaveInputs,
         NEW c \in Calls, Step(c), AccountsTypeOK'
  PROVE  CallsHaveInputs'
<1> SUFFICES ASSUME NEW d \in Calls
             PROVE  /\ call'[d].pc = "read" =>
                         /\ call'[d].op = "register" =>
                              call'[d].email \in Emails /\ call'[d].password \in Passwords
                         /\ call'[d].op \in Updating =>
                              /\ call'[d].customer \in Ids
                              /\ customers'[call'[d].customer] # None
                    /\ call'[d].pc \in Working => call'[d].op # "login"
  BY DEF CallsHaveInputs
<1>1. CASE d # c
  <2>1. call'[d] = call[d]
    BY <1>1, OthersStay
  <2>2. \A k \in Ids : customers[k] # None => customers'[k] # None
    BY CustomersStay
  <2> QED
    BY <2>1, <2>2 DEF CallsHaveInputs
<1>2. CASE d = c
  <2>1. ASSUME call'[c].pc = "read", call'[c].op = "register"
        PROVE  call'[c].email \in Emails /\ call'[c].password \in Passwords
    BY <2>1, JustRead, CheckEmailCall, ReadCustomerCall DEF Updating
  <2>2. ASSUME call'[c].pc = "read", call'[c].op \in Updating
        PROVE  call'[c].customer \in Ids /\ customers'[call'[c].customer] # None
    BY <2>2, JustRead, CheckEmailCall, ReadCustomerCall DEF Updating
  <2>3. call'[c].pc \in Working => call'[c].op # "login"
    <3>1. ASSUME NEW pc \in Finished \cup {"committed"},
                 Goto(c, pc), call[c].pc \in Working
          PROVE  call'[c].op # "login"
      BY <3>1, GoOnCall DEF Working, Finished, CallsHaveInputs
    <3> QED
      BY <3>1, CallStep, CommittedCall, CheckEmailCall, LoginCall,
         CreateCustomerCall, ReadCustomerCall, UpdateTenantCall
           DEF Working, Finished, Updating
  <2> QED
    BY <1>2, <2>1, <2>2, <2>3
<1> QED
  BY <1>1, <1>2

(* A row changes only by the call that writes it, which is then about to   *)
(* write its audit entry.                                                  *)
LEMMA CallsAreAuditedStep ==
  ASSUME AccountsAssumption, AccountsTypeOK, CallsHaveInputs, CallsAreAudited,
         NEW c \in Calls, Step(c)
  PROVE  CallsAreAudited'
<1> SUFFICES ASSUME NEW d \in Calls, Wrote(d)'
             PROVE  \/ d \in audit'
                    \/ call'[d].pc \in {"committed", "crashed"}
                    \/ call'[d].pc = "failed" /\ call'[d].edit = "dates"
  BY DEF CallsAreAudited
<1>1. ASSUME NEW pc \in Finished \cup {"committed"}, Goto(c, pc)
      PROVE  call'[c].pc = pc /\ call'[c].edit = call[c].edit
  BY <1>1, GoOnCall DEF Working, Finished
<1>2. audit \subseteq audit'
  BY CallStep, CommittedCall, CheckEmailCall, LoginCall, CreateCustomerCall,
     ReadCustomerCall, UpdateTenantCall
<1>3. CASE call'[c].pc = "committed"
  <2>1. CASE d = c
    BY <1>3, <2>1
  <2>2. CASE d # c
    <3>1. users'[d] = users[d]
      BY <2>2, NoneIsApart, CallStep, CommittedCall, CheckEmailCall,
         LoginCall, CreateCustomerCall, ReadCustomerCall, UpdateTenantCall
    <3>2. ASSUME NEW k \in Ids, customers'[k] # None, customers'[k].by = d
          PROVE  customers'[k] = customers[k]
      <4>1. CASE CommitCustomer(c)
        BY <2>2, <3>2, <4>1, CustomerWritten
      <4>2. CASE CreateCustomer(c)
        BY <2>2, <3>2, <4>2 DEF CreateCustomer, AccountsTypeOK
      <4>3. CASE UNCHANGED customers
        BY <4>3
      <4> QED
        BY <4>1, <4>2, <4>3, CallStep, CommittedCall, CheckEmailCall,
           LoginCall, ReadCustomerCall, UpdateTenantCall
    <3>5. \A t \in Ids : settings'[t] = d => settings[t] = d
      BY <2>2, CallStep, CommittedCall, CheckEmailCall, LoginCall,
         CreateCustomerCall, ReadCustomerCall, UpdateTenantCall
    <3>3. Wrote(d)
      BY <3>1, <3>2, <3>5 DEF Wrote
    <3>4. call'[d] = call[d]
      BY <2>2, OthersStay
    <3> QED
      BY <1>2, <3>3, <3>4 DEF CallsAreAudited
  <2> QED
    BY <2>1, <2>2
<1>4. CASE call'[c].pc # "committed"
  <2>1. UNCHANGED <<users, customers, settings>>
    BY <1>1, <1>4, CallStep, CommittedCall, CheckEmailCall, LoginCall,
       CreateCustomerCall, ReadCustomerCall, UpdateTenantCall
  <2>2. Wrote(d)
    BY <2>1 DEF Wrote
  <2>3. CASE d # c
    BY <1>2, <2>2, <2>3, OthersStay DEF CallsAreAudited
  <2>4. CASE d = c
    <3>1. \/ call'[c].pc = "crashed"
          \/ call'[c].pc = "failed" /\ call'[c].edit = "dates"
          \/ c \in audit'
          \/ call[c].pc \in {"idle", "read"}
      BY <1>1, <1>4, CallStep, CommittedCall, CheckEmailCall, LoginCall,
         CreateCustomerCall, ReadCustomerCall, UpdateTenantCall
       DEF Finished
    <3> QED
      BY <1>2, <2>2, <2>4, <3>1 DEF CallsAreAudited
  <2> QED
    BY <2>3, <2>4
<1> QED
  BY <1>3, <1>4

(* Only the step that answers a login matters: whoever it saw is stored as *)
(* asked for.                                                              *)
LEMMA RightPasswordsStep ==
  ASSUME AccountsAssumption, AccountsTypeOK, RowsAreNew, SeenExist,
         UsersAreAsAsked, CallsHaveInputs, RightPasswordsAreAccepted,
         NEW c \in Calls, Step(c)
  PROVE  RightPasswordsAreAccepted'
<1>1. \A u \in Registered : Asked(u)' = Asked(u)
  BY UsersStay
<1> SUFFICES ASSUME NEW d \in Calls, call'[d].op = "login"
             PROVE  /\ call'[d].pc = "refused" =>
                         \A u \in call'[d].saw :
                           Asked(u)' = <<call'[d].email, call'[d].password>> =>
                             \E v \in call'[d].saw \ {u} :
                               Asked(v)'[1] = call'[d].email
                    /\ call'[d].user # None =>
                         Asked(call[d].user)' = <<call'[d].email, call'[d].password>>
  BY DEF RightPasswordsAreAccepted
<1>2. CASE call'[d] = call[d]
  <2>1. call[d].saw \subseteq Registered
    BY DEF SeenExist
  <2>2. call[d].user # None => call[d].user \in Registered
    BY DEF UsersAreAsAsked
  <2>3. call[d].user # None => Asked(call[d].user)' = Asked(call[d].user)
    <3> SUFFICES ASSUME NEW u \in Registered, u = call[d].user
                 PROVE  Asked(call[d].user)' = Asked(call[d].user)
      BY <2>2
    <3>1. Asked(u)' = Asked(u)
      BY <1>1
    <3> QED
      BY <1>2, <3>1 DEF Asked
  <2> QED
    BY <1>1, <1>2, <2>1, <2>3 DEF RightPasswordsAreAccepted
<1>3. CASE Login(c) /\ d = c
  <2>1. PICK u \in Ids \cup {None} :
          /\ u \in SelectUsers(call'[c].email) \/ SelectUsers(call'[c].email) = {}
          /\ IF /\ u \in SelectUsers(call'[c].email)
                /\ users[u].password = call'[c].password
               THEN call'[c].pc = "served" /\ call'[c].user = u
               ELSE call'[c].pc = "refused" /\ call'[c].user = None
    BY <1>3, LoginCall
  <2>2. call'[c].saw = Registered
    BY <1>3, LoginCall
  <2>3. \A v \in Registered : Asked(v)' = <<users[v].email, users[v].password>>
    BY <1>1 DEF UsersAreAsAsked
  <2>4. ASSUME call'[c].pc = "refused", NEW v \in Registered,
               Asked(v)' = <<call'[c].email, call'[c].password>>
        PROVE  \E x \in Registered \ {v} : Asked(x)'[1] = call'[c].email
    <3>1. v \in SelectUsers(call'[c].email) /\ users[v].password = call'[c].password
      BY <2>3, <2>4 DEF SelectUsers
    <3>2. u \in SelectUsers(call'[c].email) /\ u # v
      BY <2>1, <2>4, <3>1
    <3>3. u \in Registered /\ Asked(u)'[1] = call'[c].email
      BY <2>3, <3>2 DEF SelectUsers
    <3> QED
      BY <3>2, <3>3
  <2>5. ASSUME call'[c].user # None
        PROVE  Asked(call[c].user)' = <<call'[c].email, call'[c].password>>
    <3>1. /\ call'[c].user = u
          /\ u \in SelectUsers(call'[c].email)
          /\ users[u].password = call'[c].password
      BY <2>1, <2>5
    <3>2. Asked(u)' = <<call'[c].email, call'[c].password>>
      BY <2>3, <3>1 DEF SelectUsers
    <3> QED
      BY <3>1, <3>2 DEF Asked
  <2> QED
    BY <1>3, <2>2, <2>4, <2>5
<1>4. ASSUME d = c, ~Login(c) PROVE FALSE
  <2>1. ASSUME NEW pc \in Finished \cup {"committed"},
               Goto(c, pc), call[c].pc \in Working
        PROVE  call'[c].op # "login"
    BY <2>1, GoOnCall DEF Working, Finished, CallsHaveInputs
  <2>2. call'[c].op # "login"
    BY <1>4, <2>1, CallStep, CommittedCall, CheckEmailCall,
       CreateCustomerCall, ReadCustomerCall, UpdateTenantCall
           DEF Working, Finished, Updating
  <2> QED
    BY <1>4, <2>2
<1> QED
  BY <1>2, <1>3, <1>4, OthersStay

-----------------------------------------------------------------------------
(* The theorems *)

(* Seeded companies and idle calls satisfy the invariant.                  *)
LEMMA AccountsInitially ==
  ASSUME AccountsAssumption, AccountsInit PROVE AccountsInv
<1> USE NoneIsApart
<1>1. AccountsTypeOK
  <2>1. users \in [Ids -> User \cup {None}]
    BY DEF AccountsInit, AccountsAssumption, User
  <2>2. customers \in [Ids -> Customer \cup {None}]
    BY DEF AccountsInit, Customer
  <2>3. Idle \in Call
    BY DEF Idle, Call, CustomerEdits
  <2>4. settings \in [Ids -> Calls \cup {None}]
    BY DEF AccountsInit
  <2> QED
    BY <2>1, <2>2, <2>3, <2>4 DEF AccountsInit, AccountsTypeOK
<1>2. \A c \in Calls : call[c] = Idle /\ users[c] = None /\ customers[c] = None
  BY DEF AccountsInit
<1>3. \A u \in Registered : /\ u \in Seeded
                            /\ users[u].email = SeededEmail[u]
                            /\ users[u].password = SeededPassword[u]
                            /\ users[u].saw = {}
  BY DEF AccountsInit, Registered
<1>4. \A c \in Calls : /\ call[c].pc = "idle" /\ call[c].op = None
                       /\ call[c].user = None /\ call[c].saw = {}
  BY <1>2 DEF Idle
<1>5. RowsAreNew /\ SeenExist /\ CheckedWasFree /\ CallsHaveInputs
  BY <1>2, <1>3, <1>4 DEF RowsAreNew, SeenExist, CheckedWasFree,
     CallsHaveInputs, Working
<1>6. UsersAreAsAsked
  BY <1>3, <1>4 DEF UsersAreAsAsked, Asked
<1>7. CallsAreAudited
  <2>1. \A c \in Calls : ~Wrote(c)
    BY <1>2 DEF Wrote, AccountsInit, AccountsAssumption, Ids
  <2> QED
    BY <2>1 DEF CallsAreAudited
<1>8. RightPasswordsAreAccepted
  BY <1>4 DEF RightPasswordsAreAccepted
<1> QED
  BY <1>1, <1>5, <1>6, <1>7, <1>8 DEF AccountsInv

(* Where the invariant holds, two users with one address were registered   *)
(* by calls that overlapped.                                               *)
LEMMA FreeMeansOverlap ==
  ASSUME AccountsInv PROVE DuplicatesOverlap
  BY DEF AccountsInv, CheckedWasFree, DuplicatesOverlap

(* Where the invariant holds, every step keeps it.                         *)
LEMMA AccountsStep ==
  ASSUME AccountsAssumption, AccountsInv, [AccountsNext]_accountVars
  PROVE  AccountsInv'
<1>1. CASE UNCHANGED accountVars
  <2> SUFFICES ASSUME AccountsTypeOK, RowsAreNew, SeenExist, CheckedWasFree,
                      UsersAreAsAsked, CallsHaveInputs, CallsAreAudited,
                      RightPasswordsAreAccepted, UNCHANGED accountVars
               PROVE  AccountsInv'
    BY <1>1 DEF AccountsInv
  <2>1. AccountsTypeOK' /\ RowsAreNew' /\ CallsHaveInputs'
    BY DEF accountVars, AccountsTypeOK, RowsAreNew, CallsHaveInputs
  <2>2. SeenExist' /\ CheckedWasFree'
    BY DEF accountVars, SeenExist, CheckedWasFree, Registered
  <2>3. UsersAreAsAsked'
    BY DEF accountVars, UsersAreAsAsked, Registered, Asked
  <2>4. CallsAreAudited'
    BY DEF accountVars, CallsAreAudited, Wrote
  <2>5. RightPasswordsAreAccepted'
    BY DEF accountVars, RightPasswordsAreAccepted, Asked
  <2> QED
    BY <2>1, <2>2, <2>3, <2>4, <2>5 DEF AccountsInv
<1>2. ASSUME NEW c \in Calls, Step(c) PROVE AccountsInv'
  BY <1>2, TypeStep, RowsAreNewStep, SeenExistStep, CheckedWasFreeStep,
     UsersAreAsAskedStep, CallsHaveInputsStep, CallsAreAuditedStep,
     RightPasswordsStep DEF AccountsInv
<1> QED
  BY <1>1, <1>2, NextIsStep

(* The inductive invariant of the registrations, logins and customers.     *)
THEOREM AccountsInvariant ==
  ASSUME AccountsAssumption PROVE AccountsSpec => []AccountsInv
<1>1. AccountsInit => AccountsInv
  BY AccountsInitially
<1>2. AccountsInv /\ [AccountsNext]_accountVars => AccountsInv'
  BY AccountsStep
<1> QED
  BY <1>1, <1>2, PTL DEF AccountsSpec

(* Type correctness.                                                       *)
THEOREM AccountsTypes ==
  ASSUME AccountsAssumption PROVE AccountsSpec => []AccountsTypeOK
<1>1. AccountsInv => AccountsTypeOK
  BY DEF AccountsInv
<1> QED
  BY <1>1, AccountsInvariant, PTL

(* AuthService.register: only registrations that overlap give two users    *)
(* one address.                                                            *)
THEOREM DuplicatesAreRaces ==
  ASSUME AccountsAssumption PROVE AccountsSpec => []DuplicatesOverlap
<1>1. AccountsInv => DuplicatesOverlap
  BY FreeMeansOverlap
<1> QED
  BY <1>1, AccountsInvariant, PTL

(* AuthService.login: who gives the address and the password that he was   *)
(* registered with is refused only for another user's sake.                *)
THEOREM LoginsAreRight ==
  ASSUME AccountsAssumption PROVE AccountsSpec => []RightPasswordsAreAccepted
<1>1. AccountsInv => RightPasswordsAreAccepted
  BY DEF AccountsInv
<1> QED
  BY <1>1, AccountsInvariant, PTL

(* AuditService.log: what a call has written lacks its audit entry only    *)
(* between its two commits, or after a death between them.                 *)
THEOREM CallsAudited ==
  ASSUME AccountsAssumption PROVE AccountsSpec => []CallsAreAudited
<1>1. AccountsInv => CallsAreAudited
  BY DEF AccountsInv
<1> QED
  BY <1>1, AccountsInvariant, PTL

(* What ReactivationIsAsked says of one step                               *)
AskedToReactivate ==
  \A k \in Ids :
    customers[k] # None /\ ~customers[k].active /\ customers'[k].active =>
      \E c \in Calls : /\ call[c].pc = "read"
                       /\ call'[c].pc = "committed"
                       /\ call[c].customer = k
                       /\ call[c].edit = "activate"
                       /\ ~call[c].active

(* A step activates a customer only for an update that asks for it.        *)
LEMMA ReactivationStep ==
  ASSUME AccountsAssumption, AccountsInv, NEW c \in Calls, Step(c)
  PROVE  AskedToReactivate
<1> SUFFICES ASSUME NEW k \in Ids, customers[k] # None, ~customers[k].active,
                    customers'[k].active
             PROVE  /\ call[c].pc = "read"
                    /\ call'[c].pc = "committed"
                    /\ call[c].customer = k
                    /\ call[c].edit = "activate"
                    /\ ~call[c].active
  BY DEF AskedToReactivate
<1> USE DEF AccountsInv
<1>1. CASE CommitCustomer(c)
  <2>1. call[c].customer = k
    BY <1>1, CustomerWritten
  <2>2. Wanted(c) # call[c].active /\ Wanted(c)
    BY <1>1, <2>1, CustomerWritten
  <2>3. call[c].edit = "activate" /\ ~call[c].active
    BY <2>2 DEF Wanted, AccountsTypeOK, Call
  <2>4. call'[c].pc = "committed"
    BY <1>1, GoOnCall DEF CommitCustomer, Working
  <2> QED
    BY <1>1, <2>1, <2>3, <2>4 DEF CommitCustomer
<1>2. CASE CreateCustomer(c)
  <2>1. k # c
    BY <1>2, CreateCustomerCall DEF RowsAreNew
  <2>2. customers'[k] = customers[k]
    BY <1>2, <2>1 DEF CreateCustomer, AccountsTypeOK
  <2> QED
    BY <2>2
<1>3. CASE UNCHANGED customers
  BY <1>3
<1> QED
  BY <1>1, <1>2, <1>3, CallStep, CommittedCall, CheckEmailCall, LoginCall,
     ReadCustomerCall, UpdateTenantCall

(* CustomerService.update and delete: whichever calls meet at a customer,  *)
(* one that was deactivated is active again only for a call that asked.    *)
THEOREM ReactivationsAreAsked ==
  ASSUME AccountsAssumption PROVE AccountsSpec => ReactivationIsAsked
<1>1. AccountsInv /\ [AccountsNext]_accountVars => [AskedToReactivate]_accountVars
  BY NextIsStep, ReactivationStep
<1>2. AccountsSpec => [][AskedToReactivate]_accountVars
  BY <1>1, AccountsInvariant, PTL DEF AccountsSpec
<1> QED
  BY <1>2 DEF ReactivationIsAsked, AskedToReactivate

=============================================================================
