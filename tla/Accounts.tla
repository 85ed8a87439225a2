------------------------------ MODULE Accounts ------------------------------
(***************************************************************************)
(* Registration and login (auth_service), the user behind a token          *)
(* (core/deps), the customers of a company (customer_service) and its       *)
(* settings (tenant_service), each call being served by one thread with    *)
(* one READ COMMITTED session.                                             *)
(*                                                                         *)
(* A registration inserts a tenant and its administrator in one            *)
(* transaction, and nothing else inserts either: one row stands for both,  *)
(* and a row is named after the call that inserted it.  A handler reads,   *)
(* commits without having locked what it read, and commits its audit entry *)
(* in a second transaction.                                                *)
(***************************************************************************)
EXTENDS Integers, FiniteSets

CONSTANTS
  Calls,      \* the HTTP calls that may arrive, each served once
  Seeded,     \* the companies that exist before, with a customer each
  SeededEmail, SeededPassword,  \* those of their administrators
  Emails,     \* the addresses as typed
  Normal,     \* an address as EmailStr makes it: its domain in lower case
  Passwords,  \* as bcrypt sees them: their first 72 bytes
  None,       \* the SQL NULL
  Scenarios,  \* bound: the sets of operations that clients ask for together
  MaxCrashes  \* how many calls may die half-way

Ids == Calls \cup Seeded

(* saw: the users that the check of the e-mail could see (history)         *)
User == [email : Emails, password : Passwords, saw : SUBSET Ids]

(* by: the call that wrote the row last, as updated_at tells               *)
Customer == [tenant : Ids, active : BOOLEAN, by : Ids]

ASSUME AccountsAssumption ==
  /\ Calls \cap Seeded = {}
  /\ Normal \in [Emails -> Emails]
  /\ SeededEmail \in [Seeded -> Emails]
  /\ \A u, v \in Seeded : SeededEmail[u] = SeededEmail[v] => u = v
  /\ SeededPassword \in [Seeded -> Passwords]
  /\ None \notin Ids \cup Emails \cup Passwords \cup User \cup Customer
  /\ MaxCrashes \in Nat

VARIABLES
  users,     \* the rows of tenants and users, as committed
  customers, \* the rows of customers, as committed
  settings,  \* the call that has changed the settings of a tenant last
  audit,     \* the calls with a committed audit_logs entry
  call,      \* where each call is and what it has read
  offered,   \* the scenario
  crashes    \* how many calls have died

accountVars == <<users, customers, settings, audit, call, offered, crashes>>

(* What a PATCH does to is_active; or it sets some column to null          *)
CustomerEdits == {"keep", "activate", "deactivate", "null"}

(* A PATCH of the settings gives the dates of the DIAN's resolution or not *)
TenantEdits == {"keep", "dates", "null"}

Updating == {"update_customer", "delete_customer"}
AccountOperations ==
  {"register", "login", "create_customer", "update_tenant"} \cup Updating

Working  == {"read", "committed"}
Finished == {"served", "refused", "failed", "crashed"}

Call ==
  [pc       : {"idle"} \cup Working \cup Finished,
   op       : AccountOperations \cup {None},
   email    : Emails \cup {None},
   password : Passwords \cup {None},
   saw      : SUBSET Ids,
   user     : Ids \cup {None},      \* whom the token in the answer is for
   customer : Ids \cup {None},
   active   : BOOLEAN,              \* is_active as read
   edit     : CustomerEdits \cup TenantEdits]

Idle == [pc |-> "idle", op |-> None, email |-> None, password |-> None,
         saw |-> {}, user |-> None, customer |-> None, active |-> FALSE,
         edit |-> "keep"]

AccountsInit ==
  /\ users = [u \in Ids |->
       IF u \in Seeded
         THEN [email |-> SeededEmail[u], password |-> SeededPassword[u],
               saw |-> {}]
         ELSE None]
  /\ customers = [k \in Ids |->
       IF k \in Seeded THEN [tenant |-> k, active |-> TRUE, by |-> k] ELSE None]
  /\ settings = [t \in Ids |-> None]
  /\ audit = {}
  /\ call = [c \in Calls |-> Idle]
  /\ offered \in Scenarios
  /\ crashes = 0

Arrives(c, op) == op \in offered /\ call[c].pc = "idle"

Goto(c, pc) == call' = [call EXCEPT ![c].pc = pc]

(* Fault: the entry is added to the session and never committed.           *)
LogAndForget(c) ==
  /\ call[c].pc = "committed"
  /\ call[c].edit # "dates"
  /\ Goto(c, "served")
  /\ UNCHANGED <<users, customers, settings, audit, offered, crashes>>

(* AuditService.log: a transaction of its own, after the handler's commit. *)
LogAudit(c) ==
  /\ call[c].pc = "committed"
  /\ call[c].edit # "dates"
  /\ audit' = audit \cup {c}
  /\ Goto(c, "served")
  /\ UNCHANGED <<users, customers, settings, offered, crashes>>

(* The details of the entry are the changes, and the JSON column does not  *)
(* take a date: a 500, although the changes are committed.                 *)
FailAudit(c) ==
  /\ call[c].pc = "committed"
  /\ call[c].edit = "dates"
  /\ Goto(c, "failed")
  /\ UNCHANGED <<users, customers, settings, audit, offered, crashes>>

(* The process dies: what is not committed is lost.                        *)
CrashCall(c) ==
  /\ call[c].pc \in Working
  /\ crashes < MaxCrashes
  /\ crashes' = crashes + 1
  /\ Goto(c, "crashed")
  /\ UNCHANGED <<users, customers, settings, audit, offered>>

-----------------------------------------------------------------------------
(* POST /auth/register, and POST /auth/login or /login *)

Registered == {u \in Ids : users[u] # None}

SelectUsers(email) == {u \in Registered : users[u].email = email}

(* Fault: nobody looks whether the address is taken.                       *)
CheckNoEmail(c, email, password) ==
  /\ Arrives(c, "register")
  /\ call' = [call EXCEPT ![c] =
       [Idle EXCEPT !.pc = "read", !.op = "register", !.email = email,
                    !.password = password, !.saw = Registered]]
  /\ UNCHANGED <<users, customers, settings, audit, offered, crashes>>

(* 409 when the normalised address is taken; users.email is not unique. *)
CheckEmail(c, email, password) ==
  /\ Arrives(c, "register")
  /\ call' = [call EXCEPT ![c] =
       [Idle EXCEPT !.pc = IF SelectUsers(email) = {} THEN "read" ELSE "refused",
                    !.op = "register", !.email = email,
                    !.password = password, !.saw = Registered]]
  /\ UNCHANGED <<users, customers, settings, audit, offered, crashes>>

(* Fault: the address of the company is stored for its administrator.      *)
CommitOtherEmail(c) ==
  /\ call[c].pc = "read"
  /\ call[c].op = "register"
  /\ \E e \in Emails :
       users' = [users EXCEPT ![c] =
         [email |-> e, password |-> call[c].password, saw |-> call[c].saw]]
  /\ call' = [call EXCEPT ![c].pc = "committed", ![c].user = c]
  /\ UNCHANGED <<customers, settings, audit, offered, crashes>>

(* Tenant and administrator, flushed one after the other, are committed    *)
(* together; the answer has a token for the new user.                      *)
CommitRegistration(c) ==
  /\ call[c].pc = "read"
  /\ call[c].op = "register"
  /\ users' = [users EXCEPT ![c] =
       [email |-> call[c].email, password |-> call[c].password,
        saw |-> call[c].saw]]
  /\ call' = [call EXCEPT ![c].pc = "committed", ![c].user = c]
  /\ UNCHANGED <<customers, settings, audit, offered, crashes>>

Register(c) ==
  \/ \E e \in Emails, w \in Passwords : CheckEmail(c, Normal[e], w)
  \/ CommitRegistration(c)

(* The user name is looked up as typed.  first() of a SELECT without ORDER *)
(* BY: any of the users with the address is the one whose password counts. *)
Login(c) ==
  \E e \in Emails, w \in Passwords, u \in Ids \cup {None} :
    LET found == u \in SelectUsers(e)
        right == found /\ users[u].password = w IN
    /\ Arrives(c, "login")
    /\ found \/ (u = None /\ SelectUsers(e) = {})
    /\ call' = [call EXCEPT ![c] =
         [Idle EXCEPT !.pc = IF right THEN "served" ELSE "refused",
                      !.op = "login", !.email = e, !.password = w,
                      !.saw = Registered, !.user = IF right THEN u ELSE None]]
    /\ UNCHANGED <<users, customers, settings, audit, offered, crashes>>

(* get_current_user: whoever holds a token.  The users of the seeded       *)
(* companies have logged in before.                                        *)
CurrentUsers ==
  Seeded \cup {call[c].user : c \in {d \in Calls : call[d].pc = "served" /\
                                                  call[d].user # None}}

-----------------------------------------------------------------------------
(* POST /customers; PATCH and DELETE /customers/{id} *)

CustomersOf(tenant) ==
  {k \in Ids : customers[k] # None /\ customers[k].tenant = tenant}

CreateCustomer(c) ==
  \E u \in CurrentUsers :
    /\ Arrives(c, "create_customer")
    /\ customers' = [customers EXCEPT ![c] =
                       [tenant |-> u, active |-> TRUE, by |-> c]]
    /\ call' = [call EXCEPT ![c] =
         [Idle EXCEPT !.pc = "committed", !.op = "create_customer"]]
    /\ UNCHANGED <<users, settings, audit, offered, crashes>>

(* _get_or_404 of a customer of the user's company, active or not          *)
ReadCustomer(c) ==
  \E u \in CurrentUsers, op \in Updating :
  \E k \in CustomersOf(u), edit \in CustomerEdits :
    /\ Arrives(c, op)
    /\ op = "delete_customer" => edit = "deactivate"
    /\ call' = [call EXCEPT ![c] =
         [Idle EXCEPT !.pc = "read", !.op = op, !.customer = k,
                      !.active = customers[k].active, !.edit = edit]]
    /\ UNCHANGED <<users, customers, settings, audit, offered, crashes>>

(* Fault: a field that the request leaves out counts as null.              *)
WantedOrNull(c) ==
  CASE call[c].edit = "activate"   -> TRUE
    [] call[c].edit = "deactivate" -> FALSE
    [] OTHER                       -> None

(* is_active as the call wants it                                          *)
Wanted(c) ==
  CASE call[c].edit = "activate"   -> TRUE
    [] call[c].edit = "deactivate" -> FALSE
    [] OTHER                       -> call[c].active

(* Fault: every column is written as it was read.                          *)
CommitWholeCustomer(c) ==
  /\ call[c].pc = "read"
  /\ call[c].op \in Updating
  /\ call[c].edit # "null"
  /\ customers' = [customers EXCEPT ![call[c].customer].by = c,
                                    ![call[c].customer].active = Wanted(c)]
  /\ Goto(c, "committed")
  /\ UNCHANGED <<users, settings, audit, offered, crashes>>

(* The UPDATE has updated_at and the columns that changed since they were  *)
(* read, whatever the row is now; a deleted customer keeps its row.        *)
CommitCustomer(c) ==
  LET k == call[c].customer IN
  /\ call[c].pc = "read"
  /\ call[c].op \in Updating
  /\ call[c].edit # "null"
  /\ customers' = [customers EXCEPT
       ![k].by = c,
       ![k].active = IF Wanted(c) = call[c].active THEN @ ELSE Wanted(c)]
  /\ Goto(c, "committed")
  /\ UNCHANGED <<users, settings, audit, offered, crashes>>

(* 500: the columns are NOT NULL, and the transaction is rolled back.      *)
RejectNull(c) ==
  /\ call[c].pc = "read"
  /\ call[c].edit = "null"
  /\ Goto(c, "refused")
  /\ UNCHANGED <<users, customers, settings, audit, offered, crashes>>

UpdateCustomer(c) == ReadCustomer(c) \/ CommitCustomer(c) \/ RejectNull(c)

-----------------------------------------------------------------------------
(* PATCH /tenants/me *)

(* The settings are written whatever they have become, but a name or an    *)
(* e-mail of null is refused by the database.                              *)
UpdateTenant(c) ==
  \E u \in CurrentUsers, edit \in TenantEdits :
    /\ Arrives(c, "update_tenant")
    /\ settings' = IF edit = "null" THEN settings
                    ELSE [settings EXCEPT ![u] = c]
    /\ call' = [call EXCEPT ![c] =
         [Idle EXCEPT !.pc = IF edit = "null" THEN "refused" ELSE "committed",
                      !.op = "update_tenant", !.edit = edit]]
    /\ UNCHANGED <<users, customers, audit, offered, crashes>>

-----------------------------------------------------------------------------
AccountsNext ==
  \E c \in Calls :
    \/ Register(c) \/ Login(c)
    \/ CreateCustomer(c) \/ UpdateCustomer(c)
    \/ UpdateTenant(c)
    \/ LogAudit(c) \/ FailAudit(c) \/ CrashCall(c)

AccountsSpec == AccountsInit /\ [][AccountsNext]_accountVars

-----------------------------------------------------------------------------
AccountsTypeOK ==
  /\ users \in [Ids -> User \cup {None}]
  /\ customers \in [Ids -> Customer \cup {None}]
  /\ settings \in [Ids -> Calls \cup {None}]
  /\ audit \subseteq Calls
  /\ call \in [Calls -> Call]
  /\ offered \in Scenarios
  /\ crashes \in Nat

(* Two users have one address only if their registrations overlapped: each *)
(* was checked before the other was committed (the check of admin_email in *)
(* AuthService.register, which no constraint of the database backs).       *)
DuplicatesOverlap ==
  \A u, v \in Registered :
    u # v /\ users[u].email = users[v].email => u \notin users[v].saw

(* What an administrator was registered with                               *)
Asked(u) ==
  IF u \in Seeded THEN <<SeededEmail[u], SeededPassword[u]>>
  ELSE <<call[u].email, call[u].password>>

(* A login with the normalised address and the password that someone       *)
(* registered with is refused only when another user registered the same   *)
(* address, and was the one that AuthService.login found; and an answer's  *)
(* token is for a user who registered with just these.                     *)
RightPasswordsAreAccepted ==
  \A c \in Calls :
    LET given == <<call[c].email, call[c].password>> IN
    call[c].op = "login" =>
      /\ call[c].pc = "refused" =>
           \A u \in call[c].saw :
             Asked(u) = given =>
               \E v \in call[c].saw \ {u} : Asked(v)[1] = call[c].email
      /\ call[c].user # None => Asked(call[c].user) = given

Wrote(c) ==
  \/ users[c] # None
  \/ \E k \in Ids : customers[k] # None /\ customers[k].by = c
  \/ \E t \in Ids : settings[t] = c

(* Every row that a call inserted or changed has an audit entry of that    *)
(* call, unless it is just about to write it, died before it could, or has *)
(* changed the dates of a resolution, which are never audited              *)
(* (AuditService.log in the mutations).                                    *)
CallsAreAudited ==
  \A c \in Calls :
    Wrote(c) =>
      \/ c \in audit
      \/ call[c].pc \in {"committed", "crashed"}
      \/ call[c].pc = "failed" /\ call[c].edit = "dates"

(* The two calls that meet at one customer do not undo each other: one     *)
(* that was deactivated is active again only by an update that asks for it *)
(* and had read the customer as inactive.                                  *)
ReactivationIsAsked ==
  [][\A k \in Ids :
       customers[k] # None /\ ~customers[k].active /\ customers'[k].active =>
         \E c \in Calls : /\ call[c].pc = "read"
                          /\ call'[c].pc = "committed"
                          /\ call[c].customer = k
                          /\ call[c].edit = "activate"
                          /\ ~call[c].active]_accountVars
=============================================================================
