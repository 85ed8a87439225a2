---------------------------- MODULE SalesReports ----------------------------
(***************************************************************************)
(* GET /reports/sales and GET /dashboard (report_service,                  *)
(* dashboard_service) for the user of a session, beside the commits that   *)
(* change the invoices of the companies.  Under READ COMMITTED each query  *)
(* of a report sees the invoices as they are when it runs, so that one     *)
(* answer may mix several states.                                          *)
(*                                                                         *)
(* The handlers that create, edit and transition invoices are the subject  *)
(* of DocumentWorkflow; here each of them is its commit.                   *)
(***************************************************************************)
EXTENDS Accounts, DocumentStateMachine, SequencesExt

CONSTANTS
  Readers,     \* the requests for a report or a dashboard, each served once
  Invoices,    \* the ids of the invoices that may come to exist
  Contents,    \* the amounts and issue dates an invoice may have
  Today, MonthStart,  \* as dashboard_service computes them
  Periods,     \* the pairs date_from, date_to that are asked for
  SeededStatuses, \* bound: the statuses of the invoices that exist before
  MaxChanges   \* bound: how many commits change an invoice

Content == [subtotal : Int, tax : Int, total : Int, date : Int]

(* That totals add up is TotalIsBasePlusTax of LineCalculator.  Ids are    *)
(* UUIDs, so that there are finitely many.                                 *)
ASSUME SalesAssumption ==
  /\ IsFiniteSet(Invoices)
  /\ Contents \subseteq Content
  /\ \A c \in Contents : c.total = c.subtotal + c.tax
  /\ Today \in Int /\ MonthStart \in Int
  /\ Periods \subseteq Int \X Int
  /\ SeededStatuses \subseteq DocumentStatus
  /\ None \notin [tenant : Ids, customer : Ids, status : DocumentStatus,
                  content : Contents]
  /\ MaxChanges \in Nat

VARIABLES
  invoice,  \* the invoices, as committed
  reader,   \* where each request is, and what it has read
  changes   \* how many commits have changed an invoice

salesVars   == <<invoice, reader, changes>>
companyVars == <<accountVars, salesVars>>

Invoice == [tenant : Ids, customer : Ids, status : DocumentStatus,
            content : Contents]

Kinds == {"sales_report", "dashboard"}

(* A request that has read these figures so far.  seen: the states of the  *)
(* invoices while it was served (history)                                  *)
Reader(figures) ==
  [pc      : {"idle", "reading", "served"},
   kind    : Kinds \cup {None},
   tenant  : Ids \cup {None},
   period  : Periods \cup {None},
   figures : {figures},
   seen    : SUBSET [Invoices -> Invoice \cup {None}]]

(* Fault: the dashboard counts all invoices before it counts by status.    *)
QueriesTotalFirst(kind) ==
  IF kind = "sales_report" THEN <<"total", "count", "tax">>
  ELSE <<"invoices", "sales_month", "sales_today", "by_status">>

(* The queries of the two services, in the order they are executed; the    *)
(* best-selling products are left out.                                     *)
Queries(kind) ==
  IF kind = "sales_report" THEN <<"total", "count", "tax">>
  ELSE <<"by_status", "sales_month", "sales_today", "invoices">>

-----------------------------------------------------------------------------
(* Fault: a rejected invoice counts as a sale.                             *)
StatusesNotCancelled == {"accepted", "signed", "submitted", "rejected"}

SalesStatuses == {"accepted", "signed", "submitted"}

(* Fault: the invoices of all companies.                                   *)
AllInvoices(tenant) == {i \in Invoices : invoice[i] # None}

InvoicesOf(tenant) ==
  {i \in Invoices : invoice[i] # None /\ invoice[i].tenant = tenant}

(* The invoices that count as sales between two dates                      *)
SalesBetween(tenant, from, to) ==
  {i \in InvoicesOf(tenant) : /\ invoice[i].status \in SalesStatuses
                              /\ invoice[i].content.date \in from .. to}

SumTotals(sales) == SumFunction([i \in sales |-> invoice[i].content.total])
SumTaxes(sales)  == SumFunction([i \in sales |-> invoice[i].content.tax])

(* Fault: the month ends today.                                            *)
SalesThisMonthUntilToday(tenant) == SalesBetween(tenant, MonthStart, Today)

(* The month has no end: an invoice of a later date counts.                *)
SalesThisMonth(tenant) ==
  {i \in InvoicesOf(tenant) : /\ invoice[i].status \in SalesStatuses
                              /\ invoice[i].content.date >= MonthStart}

(* What a query answers now                                                *)
Answer(query, tenant, period) ==
  CASE query = "total"       -> SumTotals(SalesBetween(tenant, period[1], period[2]))
    [] query = "count"       -> Cardinality(SalesBetween(tenant, period[1], period[2]))
    [] query = "tax"         -> SumTaxes(SalesBetween(tenant, period[1], period[2]))
    [] query = "sales_month" -> SumTotals(SalesThisMonth(tenant))
    [] query = "sales_today" -> SumTotals(SalesBetween(tenant, Today, Today))
    [] query = "invoices"    -> Cardinality(InvoicesOf(tenant))
    [] query = "by_status"   ->
         [s \in DocumentStatus |->
            Cardinality({i \in InvoicesOf(tenant) : invoice[i].status = s})]

NoFigures == [query \in {} |-> 0]

BeginReport(q) ==
  \E u \in CurrentUsers, kind \in Kinds, period \in Periods :
    /\ "reports" \in offered
    /\ reader[q].pc = "idle"
    /\ reader' = [reader EXCEPT ![q] =
         [pc |-> "reading", kind |-> kind, tenant |-> u, period |-> period,
          figures |-> NoFigures, seen |-> {invoice}]]
    /\ UNCHANGED <<accountVars, invoice, changes>>

ExecuteQuery(q) ==
  LET queries == Queries(reader[q].kind)
      done    == DOMAIN reader[q].figures
      query   == queries[Cardinality(done) + 1] IN
  /\ reader[q].pc = "reading"
  /\ reader' = [reader EXCEPT
       ![q].figures = [x \in done \cup {query} |->
                         IF x \in done THEN @[x]
                         ELSE Answer(x, reader[q].tenant, reader[q].period)],
       ![q].pc = IF query = Last(queries) THEN "served" ELSE "reading"]
  /\ UNCHANGED <<accountVars, invoice, changes>>

Report(q) == BeginReport(q) \/ ExecuteQuery(q)

-----------------------------------------------------------------------------
(* What the handlers of DocumentWorkflow commit before and meanwhile       *)

SetInvoice(i, row) ==
  /\ "reports" \in offered
  /\ changes < MaxChanges
  /\ changes' = changes + 1
  /\ invoice' = [invoice EXCEPT ![i] = row]
  /\ reader' = [q \in Readers |->
       IF reader[q].pc = "reading"
         THEN [reader[q] EXCEPT !.seen = @ \cup {invoice'}] ELSE reader[q]]
  /\ UNCHANGED accountVars

(* InvoiceService.create: the customer is one of the company, active or not *)
CreateInvoice(i) ==
  \E u \in CurrentUsers : \E k \in CustomersOf(u), content \in Contents :
    /\ invoice[i] = None
    /\ SetInvoice(i, [tenant |-> u, customer |-> k, status |-> "draft",
                      content |-> content])

(* InvoiceService.update: of any invoice, because its check of the status  *)
(* may be out of date when it commits                                      *)
UpdateInvoice(i) ==
  \E content \in Contents :
    /\ invoice[i] # None
    /\ SetInvoice(i, [invoice[i] EXCEPT !.content = content])

(* transition_invoice and the DIAN worker: to any status an action leads   *)
(* to, because a commit may overwrite a status that it has not read        *)
ChangeStatus(i) ==
  \E from \in DocumentStatus, action \in TransitionAction, to \in DocumentStatus :
    /\ invoice[i] # None
    /\ Transition(from, action, to)
    /\ SetInvoice(i, [invoice[i] EXCEPT !.status = to])

ChangeInvoice(i) == CreateInvoice(i) \/ UpdateInvoice(i) \/ ChangeStatus(i)

(* An invoice that a seeded company has before                             *)
SeededInvoice ==
  {[tenant |-> t, customer |-> t, status |-> s, content |-> c] :
     t \in Seeded, s \in SeededStatuses, c \in Contents}

SalesInit ==
  /\ AccountsInit
  /\ invoice \in [Invoices -> SeededInvoice \cup {None}]
  /\ "reports" \in offered \/ invoice = [i \in Invoices |-> None]
  /\ reader = [q \in Readers |->
       [pc |-> "idle", kind |-> None, tenant |-> None, period |-> None,
        figures |-> NoFigures, seen |-> {}]]
  /\ changes = 0

SalesNext ==
  \/ AccountsNext /\ UNCHANGED salesVars
  \/ \E i \in Invoices : ChangeInvoice(i)
  \/ \E q \in Readers : Report(q)

SalesSpec == SalesInit /\ [][SalesNext]_companyVars

-----------------------------------------------------------------------------
Figure(query) == IF query = "by_status" THEN [DocumentStatus -> Nat] ELSE Int

SalesTypeOK ==
  /\ AccountsTypeOK
  /\ invoice \in [Invoices -> Invoice \cup {None}]
  /\ DOMAIN reader = Readers
  /\ \A q \in Readers :
       /\ reader[q] \in Reader(reader[q].figures)
       /\ \A query \in DOMAIN reader[q].figures :
            reader[q].figures[query] \in Figure(query)
  /\ changes \in Nat

(* What the business means by a sale: the invoice has left the company and *)
(* was neither rejected nor cancelled.                                     *)
IsSale(row, tenant) ==
  /\ row # None
  /\ row.tenant = tenant
  /\ row.status \notin {"draft", "rejected", "cancelled"}

SalesIn(state, tenant, from) ==
  {i \in Invoices : IsSale(state[i], tenant) /\ state[i].content.date >= from}
SalesInPeriod(state, r) ==
  {i \in SalesIn(state, r.tenant, r.period[1]) :
     state[i].content.date <= r.period[2]}
SubtotalsIn(state, sales) ==
  SumFunction([i \in sales |-> state[i].content.subtotal])
TotalsIn(state, sales) ==
  SumFunction([i \in sales |-> state[i].content.total])

Served(kind) == {reader[q] : q \in {p \in Readers : /\ reader[p].pc = "served"
                                                   /\ reader[p].kind = kind}}

(* A sales report during which no invoice changed is exact: the number of  *)
(* the company's sales in the period, what they sum up to, and, although   *)
(* it is only the difference of two sums, the sum of their subtotals.      *)
QuietReportsAreExact ==
  \A r \in Served("sales_report") : \A state \in r.seen :
    r.seen = {state} =>
      /\ r.figures.total = TotalsIn(state, SalesInPeriod(state, r))
      /\ r.figures.count = Cardinality(SalesInPeriod(state, r))
      /\ r.figures.total - r.figures.tax
           = SubtotalsIn(state, SalesInPeriod(state, r))

(* The sales figures of a dashboard are each true at some moment while it  *)
(* was computed, however many invoices changed meanwhile: the company's    *)
(* sales since the first of the month, and its sales of today.             *)
DashboardSalesWereTrue ==
  \A r \in Served("dashboard") :
    /\ \E state \in r.seen :
         r.figures.sales_month = TotalsIn(state, SalesIn(state, r.tenant, MonthStart))
    /\ \E state \in r.seen :
         r.figures.sales_today = TotalsIn(state,
           {i \in SalesIn(state, r.tenant, Today) :
              state[i].content.date = Today})

(* The counts by status never add up to more than the number of invoices   *)
(* that the dashboard shows beside them, although they are counted apart:  *)
(* invoices are never deleted, and the total is counted last.              *)
DashboardCountsFit ==
  \A r \in Served("dashboard") :
    SumFunction(r.figures.by_status) <= r.figures.invoices
=============================================================================
