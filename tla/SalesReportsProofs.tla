------------------------- MODULE SalesReportsProofs -------------------------
(***************************************************************************)
(* Theorems about SalesReports, for any number of companies, invoices,     *)
(* amounts, requests and commits.                                          *)
(***************************************************************************)
EXTENDS SalesReports, AccountsProofs, SumProofs

-----------------------------------------------------------------------------
(* The accounts under the reports *)

(* The reports and the invoices leave registrations, logins and customers  *)
(* as they are: SalesReports implements Accounts, whose theorems hold here. *)
THEOREM SalesImplementsAccounts == SalesSpec => AccountsSpec
<1>1. SalesInit => AccountsInit
  BY DEF SalesInit
<1>2. [SalesNext]_companyVars => [AccountsNext]_accountVars
  BY DEF SalesNext, companyVars, ChangeInvoice, CreateInvoice, UpdateInvoice,
     ChangeStatus, SetInvoice, Report, BeginReport, ExecuteQuery
<1> QED
  BY <1>1, <1>2, PTL DEF SalesSpec, AccountsSpec

-----------------------------------------------------------------------------
(* Types *)

InvoicesTyped == invoice \in [Invoices -> Invoice \cup {None}]

(* The seeded invoices are invoices.                                       *)
LEMMA InvoicesTypedInitially ==
  ASSUME AccountsAssumption, SalesAssumption, SalesInit PROVE InvoicesTyped
<1>1. ASSUME NEW t \in Seeded, NEW s \in SeededStatuses, NEW c \in Contents
      PROVE  [tenant |-> t, customer |-> t, status |-> s, content |-> c] \in Invoice
  BY <1>1, NoneIsApart DEF SalesAssumption, Invoice
<1>2. SeededInvoice \subseteq Invoice
  BY <1>1 DEF SeededInvoice
<1> QED
  BY <1>2 DEF SalesInit, InvoicesTyped

(* Every commit stores an invoice, of the company that has had it.         *)
LEMMA InvoicesTypedStep ==
  ASSUME AccountsAssumption, SalesAssumption, AccountsTypeOK, InvoicesTyped,
         NEW i \in Invoices, ChangeInvoice(i)
  PROVE  \E row \in Invoice : /\ SetInvoice(i, row)
                              /\ invoice[i] # None =>
                                   row.tenant = invoice[i].tenant
<1>1. CASE CreateInvoice(i)
  <2>1. PICK u \in CurrentUsers : \E k \in CustomersOf(u), content \in Contents :
          SetInvoice(i, [tenant |-> u, customer |-> k, status |-> "draft",
                         content |-> content])
    BY <1>1 DEF CreateInvoice
  <2>2. PICK k \in CustomersOf(u), content \in Contents :
          SetInvoice(i, [tenant |-> u, customer |-> k, status |-> "draft",
                         content |-> content])
    BY <2>1
  <2>3. u \in Ids /\ invoice[i] = None
    BY <1>1, NoneIsApart DEF CurrentUsers, AccountsTypeOK, Call, CreateInvoice
  <2>4. k \in Ids
    BY DEF CustomersOf
  <2>5. [tenant |-> u, customer |-> k, status |-> "draft",
         content |-> content] \in Invoice
    BY <2>3, <2>4 DEF Invoice, DocumentStatus
  <2> QED
    BY <2>2, <2>3, <2>5
<1>2. CASE UpdateInvoice(i)
  <2>1. PICK content \in Contents : /\ invoice[i] # None
                                    /\ SetInvoice(i, [invoice[i] EXCEPT !.content = content])
    BY <1>2 DEF UpdateInvoice
  <2>2. PICK old \in Invoice : old = invoice[i]
    BY <2>1 DEF InvoicesTyped
  <2>3. [old EXCEPT !.content = content] \in Invoice
          /\ [old EXCEPT !.content = content].tenant = old.tenant
    BY DEF Invoice
  <2> QED
    BY <2>1, <2>2, <2>3
<1>3. CASE ChangeStatus(i)
  <2>1. PICK to \in DocumentStatus : /\ invoice[i] # None
                                     /\ SetInvoice(i, [invoice[i] EXCEPT !.status = to])
    BY <1>3 DEF ChangeStatus
  <2>2. PICK old \in Invoice : old = invoice[i]
    BY <2>1 DEF InvoicesTyped
  <2>3. [old EXCEPT !.status = to] \in Invoice
          /\ [old EXCEPT !.status = to].tenant = old.tenant
    BY DEF Invoice
  <2> QED
    BY <2>1, <2>2, <2>3
<1> QED
  BY <1>1, <1>2, <1>3 DEF ChangeInvoice

-----------------------------------------------------------------------------
(* What the queries answer *)

AllQueries == {"total", "count", "tax", "by_status", "sales_month",
               "sales_today", "invoices"}

(* A query for sales between two dates finds what the business means.      *)
LEMMA SalesAreSales ==
  ASSUME SalesAssumption, InvoicesTyped, NEW tenant, NEW from \in Int,
         NEW to \in Int
  PROVE  /\ SalesBetween(tenant, from, to)
              = {i \in SalesIn(invoice, tenant, from) :
                   invoice[i].content.date <= to}
         /\ SalesThisMonth(tenant) = SalesIn(invoice, tenant, MonthStart)
<1>1. \A i \in InvoicesOf(tenant) :
        /\ i \in Invoices
        /\ invoice[i] # None
        /\ invoice[i].tenant = tenant
        /\ invoice[i].status \in DocumentStatus
        /\ invoice[i].content.date \in Int
  BY DEF InvoicesOf, InvoicesTyped, Invoice, SalesAssumption, Content
<1>2. \A s \in DocumentStatus :
        s \in SalesStatuses <=> s \notin {"draft", "rejected", "cancelled"}
  BY DEF DocumentStatus, SalesStatuses
<1>3. \A i \in InvoicesOf(tenant) :
        IsSale(invoice[i], tenant) <=> invoice[i].status \in SalesStatuses
  BY <1>1, <1>2 DEF IsSale
<1>4. \A i \in Invoices : IsSale(invoice[i], tenant) => i \in InvoicesOf(tenant)
  BY DEF IsSale, InvoicesOf
<1>5. SalesThisMonth(tenant) = SalesIn(invoice, tenant, MonthStart)
  BY <1>1, <1>3, <1>4 DEF SalesThisMonth, SalesIn
<1>6. \A i \in InvoicesOf(tenant) :
        invoice[i].content.date \in from .. to
          <=> /\ invoice[i].content.date >= from
              /\ invoice[i].content.date <= to
  BY <1>1
<1>7. SalesBetween(tenant, from, to)
        = {i \in SalesIn(invoice, tenant, from) :
             invoice[i].content.date <= to}
  BY <1>1, <1>3, <1>4, <1>6 DEF SalesBetween, SalesIn
<1> QED
  BY <1>5, <1>7

(* The invoices in a state of the table, as a request may see it           *)
IsState(state) == state \in [Invoices -> Invoice \cup {None}]

(* Their sums are numbers, and the taxes are what the totals have more     *)
(* than the subtotals.                                                     *)
LEMMA SumsOfSales ==
  ASSUME SalesAssumption, NEW state, IsState(state),
         NEW sales \in SUBSET Invoices, \A i \in sales : state[i] # None
  PROVE  /\ IsFiniteSet(sales)
         /\ TotalsIn(state, sales) \in Int
         /\ SubtotalsIn(state, sales) \in Int
         /\ SumFunction([i \in sales |-> state[i].content.tax])
              = TotalsIn(state, sales) - SubtotalsIn(state, sales)
<1>1. IsFiniteSet(sales)
  BY FS_Subset DEF SalesAssumption
<1>2. \A i \in sales : state[i] \in Invoice
  BY DEF IsState
<1>3. \A i \in sales : /\ state[i].content.subtotal \in Int
                       /\ state[i].content.tax \in Int
                       /\ state[i].content.total
                            = state[i].content.subtotal + state[i].content.tax
  <2>1. \A i \in sales : state[i].content \in Contents
    BY <1>2 DEF Invoice
  <2>2. \A c \in Contents : /\ c.subtotal \in Int /\ c.tax \in Int
                            /\ c.total = c.subtotal + c.tax
    BY DEF SalesAssumption, Content
  <2> QED
    BY <2>1, <2>2
<1>4. PICK a : a = [i \in sales |-> state[i].content.subtotal]
  OBVIOUS
<1>5. PICK b : b = [i \in sales |-> state[i].content.tax]
  OBVIOUS
<1>6. PICK c : c = [i \in sales |-> state[i].content.total]
  OBVIOUS
<1>7. a \in [sales -> Int] /\ b \in [sales -> Int]
  BY <1>3, <1>4, <1>5
<1>8. c = [i \in sales |-> a[i] + b[i]] /\ c \in [sales -> Int]
  BY <1>3, <1>4, <1>5, <1>6
<1>9. SumFunction(c) = SumFunction(a) + SumFunction(b)
  BY <1>1, <1>7, <1>8, SumAdds
<1>10. /\ SumFunction(a) \in Int /\ SumFunction(b) \in Int
       /\ SumFunction(c) \in Int
  BY <1>1, <1>7, <1>8, SumIsInt
<1>11. TotalsIn(state, sales) = SumFunction(c)
         /\ SubtotalsIn(state, sales) = SumFunction(a)
  BY <1>4, <1>6 DEF TotalsIn, SubtotalsIn
<1> QED
  BY <1>1, <1>5, <1>9, <1>10, <1>11

MonthIn(r, state) == TotalsIn(state, SalesIn(state, r.tenant, MonthStart))
TodayIn(r, state) ==
  TotalsIn(state, {i \in SalesIn(state, r.tenant, Today) :
                     state[i].content.date = Today})

(* What the business means by the figure of a query for sales              *)
IsTrueFigure(query, figure, r, state) ==
  /\ query = "total" => figure = TotalsIn(state, SalesInPeriod(state, r))
  /\ query = "count" => figure = Cardinality(SalesInPeriod(state, r))
  /\ query = "tax"   => figure = TotalsIn(state, SalesInPeriod(state, r))
                                   - SubtotalsIn(state, SalesInPeriod(state, r))
  /\ query = "sales_month" => figure = MonthIn(r, state)
  /\ query = "sales_today" => figure = TodayIn(r, state)

(* An answer about sales is the true figure in the state of the invoices   *)
(* when the query runs.                                                    *)
LEMMA AnswerIsTrue ==
  ASSUME SalesAssumption, InvoicesTyped, NEW r, r.period \in Periods,
         NEW query \in AllQueries \ {"by_status", "invoices"}
  PROVE  /\ Answer(query, r.tenant, r.period) \in Int
         /\ IsTrueFigure(query, Answer(query, r.tenant, r.period), r, invoice)
<1> DEFINE figure == Answer(query, r.tenant, r.period)
           period == SalesInPeriod(invoice, r)
           month  == SalesIn(invoice, r.tenant, MonthStart)
           today  == {i \in SalesIn(invoice, r.tenant, Today) :
                        invoice[i].content.date = Today}
<1>1. r.period[1] \in Int /\ r.period[2] \in Int /\ Today \in Int
  BY DEF SalesAssumption
<1>2. SalesBetween(r.tenant, r.period[1], r.period[2]) = period
  <2>1. \A from, to \in Int :
          SalesBetween(r.tenant, from, to)
            = {i \in SalesIn(invoice, r.tenant, from) :
                 invoice[i].content.date <= to}
    BY SalesAreSales
  <2> QED
    BY <1>1, <2>1 DEF SalesInPeriod
<1>3. SalesThisMonth(r.tenant) = month
  BY <1>1, SalesAreSales
<1>4. SalesBetween(r.tenant, Today, Today) = today
  <2>1. \A i \in SalesIn(invoice, r.tenant, Today) :
          /\ invoice[i].content.date \in Int
          /\ invoice[i].content.date >= Today
    BY DEF SalesIn, IsSale, InvoicesTyped, Invoice, SalesAssumption, Content
  <2>2. \A i \in SalesIn(invoice, r.tenant, Today) :
          invoice[i].content.date <= Today <=> invoice[i].content.date = Today
    BY <1>1, <2>1
  <2> QED
    BY <1>1, <2>2, SalesAreSales
<1>5. IsState(invoice)
  BY DEF InvoicesTyped, IsState
<1>6. ASSUME NEW sales, sales \in {period, month, today}
      PROVE  sales \in SUBSET Invoices /\ \A i \in sales : invoice[i] # None
  BY <1>6 DEF SalesInPeriod, SalesIn, IsSale
<1>7. ASSUME NEW sales, sales \in {period, month, today}
      PROVE  /\ IsFiniteSet(sales)
             /\ TotalsIn(invoice, sales) \in Int
             /\ SubtotalsIn(invoice, sales) \in Int
             /\ SumTotals(sales) = TotalsIn(invoice, sales)
             /\ SumTaxes(sales) = TotalsIn(invoice, sales)
                                    - SubtotalsIn(invoice, sales)
  <2>1. /\ IsFiniteSet(sales)
        /\ TotalsIn(invoice, sales) \in Int
        /\ SubtotalsIn(invoice, sales) \in Int
        /\ SumFunction([i \in sales |-> invoice[i].content.tax])
             = TotalsIn(invoice, sales) - SubtotalsIn(invoice, sales)
    BY <1>5, <1>6, <1>7, SumsOfSales
  <2> QED
    BY <2>1 DEF SumTotals, SumTaxes, TotalsIn
<1> HIDE DEF period, month, today
<1>8. CASE query = "total"
  <2>1. figure = SumTotals(period)
    BY <1>2, <1>8 DEF Answer
  <2> QED
    BY <1>7, <1>8, <2>1 DEF IsTrueFigure, period
<1>9. CASE query = "count"
  <2>1. figure = Cardinality(period)
    BY <1>2, <1>9 DEF Answer
  <2> QED
    BY <1>7, <1>9, <2>1, FS_CardinalityType DEF IsTrueFigure, period
<1>10. CASE query = "tax"
  <2>1. figure = SumTaxes(period)
    BY <1>2, <1>10 DEF Answer
  <2> QED
    BY <1>7, <1>10, <2>1 DEF IsTrueFigure, period
<1>11. CASE query = "sales_month"
  <2>1. figure = SumTotals(month)
    BY <1>3, <1>11 DEF Answer
  <2> QED
    BY <1>7, <1>11, <2>1 DEF IsTrueFigure, MonthIn, month
<1>12. CASE query = "sales_today"
  <2>1. figure = SumTotals(today)
    BY <1>4, <1>12 DEF Answer
  <2> QED
    BY <1>7, <1>12, <2>1 DEF IsTrueFigure, TodayIn, today
<1> QED
  BY <1>8, <1>9, <1>10, <1>11, <1>12 DEF AllQueries

(* There are finitely many statuses.                                       *)
LEMMA StatusesAreFinite == IsFiniteSet(DocumentStatus)
<1>1. ASSUME NEW S, IsFiniteSet(S), NEW x PROVE IsFiniteSet(S \cup {x})
  BY <1>1, FS_AddElement
<1>2. IsFiniteSet({} \cup {"draft"})
  BY <1>1, FS_EmptySet
<1>3. IsFiniteSet(({} \cup {"draft"}) \cup {"signed"})
  BY <1>1, <1>2
<1>4. IsFiniteSet((({} \cup {"draft"}) \cup {"signed"}) \cup {"submitted"})
  BY <1>1, <1>3
<1>5. IsFiniteSet(((({} \cup {"draft"}) \cup {"signed"}) \cup {"submitted"})
                    \cup {"accepted"})
  BY <1>1, <1>4
<1>6. IsFiniteSet((((({} \cup {"draft"}) \cup {"signed"}) \cup {"submitted"})
                    \cup {"accepted"}) \cup {"rejected"})
  BY <1>1, <1>5
<1>7. IsFiniteSet(((((({} \cup {"draft"}) \cup {"signed"}) \cup {"submitted"})
                    \cup {"accepted"}) \cup {"rejected"}) \cup {"cancelled"})
  BY <1>1, <1>6
<1>8. (((((({} \cup {"draft"}) \cup {"signed"}) \cup {"submitted"})
         \cup {"accepted"}) \cup {"rejected"}) \cup {"cancelled"})
        = DocumentStatus
  BY DEF DocumentStatus
<1> QED
  BY <1>7, <1>8

(* What a dashboard counts: the invoices of a status add up to no more     *)
(* than there are invoices now.                                            *)
LEMMA CountsFitNow ==
  ASSUME SalesAssumption, NEW tenant, NEW period
  PROVE  /\ Answer("by_status", tenant, period) \in [DocumentStatus -> Nat]
         /\ SumFunction(Answer("by_status", tenant, period))
              <= Cardinality(InvoicesOf(tenant))
         /\ Answer("invoices", tenant, period) = Cardinality(InvoicesOf(tenant))
         /\ Cardinality(InvoicesOf(tenant)) \in Nat
<1>1. PICK S : S = InvoicesOf(tenant)
  OBVIOUS
<1>2. S \in SUBSET Invoices
  BY <1>1 DEF InvoicesOf
<1>3. IsFiniteSet(S) /\ Cardinality(S) \in Nat
  BY <1>2, FS_Subset, FS_CardinalityType DEF SalesAssumption
<1>4. PICK class : class = [i \in Invoices |-> invoice[i].status]
  OBVIOUS
<1>5. PICK counts :
        counts = [s \in DocumentStatus |-> Cardinality({i \in S : class[i] = s})]
  OBVIOUS
<1>6. counts \in [DocumentStatus -> Nat] /\ SumFunction(counts) <= Cardinality(S)
  BY <1>3, <1>5, StatusesAreFinite, ClassesFit
<1>7. Answer("by_status", tenant, period) = counts
  <2>1. \A s \in DocumentStatus :
          {i \in S : class[i] = s} = {i \in S : invoice[i].status = s}
    BY <1>2, <1>4
  <2> QED
    BY <1>1, <1>5, <2>1 DEF Answer
<1>8. Answer("invoices", tenant, period) = Cardinality(S)
  BY <1>1 DEF Answer
<1> QED
  BY <1>1, <1>3, <1>6, <1>7, <1>8

-----------------------------------------------------------------------------
(* The requests *)

(* The queries that have been answered, after each of them                 *)
Answered(kind, pc) ==
  IF kind = "sales_report" THEN
    IF pc = "served" THEN {{"total", "count", "tax"}}
    ELSE {{}, {"total"}, {"total", "count"}}
  ELSE
    IF pc = "served" THEN {{"by_status", "sales_month", "sales_today", "invoices"}}
    ELSE {{}, {"by_status"}, {"by_status", "sales_month"},
          {"by_status", "sales_month", "sales_today"}}

(* A request has the answers to its queries so far, each true in a state   *)
(* that it has seen; its counts fit the number of invoices it has counted. *)
ReaderInv(r) ==
  /\ r = [pc |-> r.pc, kind |-> r.kind, tenant |-> r.tenant,
          period |-> r.period, figures |-> r.figures, seen |-> r.seen]
  /\ \A state \in r.seen : IsState(state)
  /\ \/ /\ r.pc = "idle" /\ r.kind = None /\ r.tenant = None
        /\ r.period = None /\ DOMAIN r.figures = {}
     \/ /\ r.pc \in {"reading", "served"} /\ r.kind \in Kinds
        /\ r.tenant \in Ids /\ r.period \in Periods
        /\ DOMAIN r.figures \in Answered(r.kind, r.pc)
  /\ \A query \in DOMAIN r.figures :
       r.figures[query] \in Figure(query)
  /\ \A query \in DOMAIN r.figures \ {"by_status", "invoices"} :
       \E state \in r.seen :
         IsTrueFigure(query, r.figures[query], r, state)
  /\ "invoices" \in DOMAIN r.figures =>
       SumFunction(r.figures["by_status"]) <= r.figures["invoices"]

(* While it is being served, the last state it has seen is the current     *)
(* one, and the counts it has fit the invoices there are now.              *)
ReadingInv(r) ==
  r.pc = "reading" =>
    /\ invoice \in r.seen
    /\ "by_status" \in DOMAIN r.figures =>
         SumFunction(r.figures["by_status"]) <= Cardinality(InvoicesOf(r.tenant))

ReadersInv ==
  /\ DOMAIN reader = Readers
  /\ \A q \in Readers : ReaderInv(reader[q]) /\ ReadingInv(reader[q])

(* How many queries have been answered.                                    *)
LEMMA AnsweredSoFar ==
  /\ Cardinality({}) = 0
  /\ \A x : Cardinality({x}) = 1
  /\ \A x, y : x # y => Cardinality({x, y}) = 2
  /\ \A x, y, z :
       x # y /\ x # z /\ y # z => Cardinality({x, y, z}) = 3
<1>1. Cardinality({}) = 0 /\ IsFiniteSet({})
  BY FS_EmptySet
<1>2. ASSUME NEW S, IsFiniteSet(S), NEW x, x \notin S
      PROVE  /\ IsFiniteSet(S \cup {x})
             /\ Cardinality(S \cup {x}) = Cardinality(S) + 1
  BY <1>2, FS_AddElement
<1>3. \A x : IsFiniteSet({x}) /\ Cardinality({x}) = 1
  <2> SUFFICES ASSUME NEW x PROVE IsFiniteSet({x}) /\ Cardinality({x}) = 1
    OBVIOUS
  <2>1. {} \cup {x} = {x} /\ x \notin {}
    OBVIOUS
  <2>2. /\ IsFiniteSet({} \cup {x})
        /\ Cardinality({} \cup {x}) = Cardinality({}) + 1
    BY <1>1, <1>2, <2>1
  <2> QED
    BY <1>1, <2>1, <2>2
<1>4. \A x, y : x # y =>
        IsFiniteSet({x, y}) /\ Cardinality({x, y}) = 2
  <2> SUFFICES ASSUME NEW x, NEW y, x # y
               PROVE  IsFiniteSet({x, y}) /\ Cardinality({x, y}) = 2
    OBVIOUS
  <2>1. {x} \cup {y} = {x, y} /\ y \notin {x}
    OBVIOUS
  <2>2. /\ IsFiniteSet({x} \cup {y})
        /\ Cardinality({x} \cup {y}) = Cardinality({x}) + 1
    BY <1>2, <1>3, <2>1
  <2>3. Cardinality({x}) = 1
    BY <1>3
  <2>4. Cardinality({x} \cup {y}) = 2
    BY <2>2, <2>3
  <2> QED
    BY <2>1, <2>2, <2>4
<1>5. \A x, y, z :
        x # y /\ x # z /\ y # z => Cardinality({x, y, z}) = 3
  <2> SUFFICES ASSUME NEW x, NEW y, NEW z, x # y, x # z, y # z
               PROVE  Cardinality({x, y, z}) = 3
    OBVIOUS
  <2>1. {x, y} \cup {z} = {x, y, z} /\ z \notin {x, y}
    OBVIOUS
  <2>2. IsFiniteSet({x, y}) /\ Cardinality({x, y}) = 2
    BY <1>4
  <2>3. Cardinality({x, y} \cup {z}) = Cardinality({x, y}) + 1
    BY <1>2, <2>1, <2>2
  <2>4. Cardinality({x, y} \cup {z}) = 3
    BY <2>2, <2>3
  <2> QED
    BY <2>1, <2>4
<1> QED
  BY <1>1, <1>3, <1>4, <1>5

(* The next query of a request has not been answered.                      *)
LEMMA NextQuery ==
  ASSUME NEW kind \in Kinds, NEW done \in Answered(kind, "reading")
  PROVE  LET query == Queries(kind)[Cardinality(done) + 1]
             last  == Last(Queries(kind)) IN
         /\ query \in AllQueries
         /\ query \notin done
         /\ "invoices" \notin done
         /\ query = "invoices" => "by_status" \in done
         /\ done \cup {query} \in
              Answered(kind, IF query = last THEN "served" ELSE "reading")
<1> DEFINE reports    == <<"total", "count", "tax">>
           dashboards == <<"by_status", "sales_month", "sales_today", "invoices">>
<1>1. /\ Queries("sales_report") = reports
      /\ Queries("dashboard") = dashboards
  BY DEF Queries
<1>2. Last(reports) = "tax" /\ Last(dashboards) = "invoices"
  BY DEF Last
<1>3. /\ reports[1] = "total" /\ reports[2] = "count" /\ reports[3] = "tax"
      /\ dashboards[1] = "by_status" /\ dashboards[2] = "sales_month"
      /\ dashboards[3] = "sales_today" /\ dashboards[4] = "invoices"
  OBVIOUS
<1>4. /\ Cardinality({}) = 0
      /\ Cardinality({"total"}) = 1
      /\ Cardinality({"total", "count"}) = 2
      /\ Cardinality({"by_status"}) = 1
      /\ Cardinality({"by_status", "sales_month"}) = 2
      /\ Cardinality({"by_status", "sales_month", "sales_today"}) = 3
  <2>1. /\ "total" # "count" /\ "by_status" # "sales_month"
        /\ "by_status" # "sales_today" /\ "sales_month" # "sales_today"
    OBVIOUS
  <2>2. Cardinality({"total", "count"}) = 2
    BY <2>1, AnsweredSoFar
  <2>3. Cardinality({"by_status", "sales_month"}) = 2
    BY <2>1, AnsweredSoFar
  <2>4. Cardinality({"by_status", "sales_month", "sales_today"}) = 3
    <3>1. \A x, y, z :
            x # y /\ x # z /\ y # z => Cardinality({x, y, z}) = 3
      BY AnsweredSoFar
    <3>2. PICK x, y, z : /\ x = "by_status" /\ y = "sales_month"
                         /\ z = "sales_today"
      OBVIOUS
    <3>3. x # y /\ x # z /\ y # z
      BY <2>1, <3>2
    <3>4. Cardinality({x, y, z}) = 3
      BY <3>1, <3>3
    <3> QED
      BY <3>2, <3>4
  <2>5. /\ Cardinality({}) = 0
        /\ Cardinality({"total"}) = 1
        /\ Cardinality({"by_status"}) = 1
    BY AnsweredSoFar
  <2> QED
    BY <2>2, <2>3, <2>4, <2>5
<1> HIDE DEF reports, dashboards
<1>5. CASE kind = "sales_report"
  <2>1. CASE done = {}
    BY <1>1, <1>2, <1>3, <1>4, <1>5, <2>1 DEF Answered, AllQueries
  <2>2. CASE done = {"total"}
    BY <1>1, <1>2, <1>3, <1>4, <1>5, <2>2 DEF Answered, AllQueries
  <2>3. CASE done = {"total", "count"}
    BY <1>1, <1>2, <1>3, <1>4, <1>5, <2>3 DEF Answered, AllQueries
  <2> QED
    BY <1>5, <2>1, <2>2, <2>3 DEF Answered
<1>6. CASE kind = "dashboard"
  <2>1. CASE done = {}
    BY <1>1, <1>2, <1>3, <1>4, <1>6, <2>1 DEF Answered, AllQueries
  <2>2. CASE done = {"by_status"}
    BY <1>1, <1>2, <1>3, <1>4, <1>6, <2>2 DEF Answered, AllQueries
  <2>3. CASE done = {"by_status", "sales_month"}
    BY <1>1, <1>2, <1>3, <1>4, <1>6, <2>3 DEF Answered, AllQueries
  <2>4. CASE done = {"by_status", "sales_month", "sales_today"}
    BY <1>1, <1>2, <1>3, <1>4, <1>6, <2>4 DEF Answered, AllQueries
  <2> QED
    BY <1>6, <2>1, <2>2, <2>3, <2>4 DEF Answered
<1> QED
  BY <1>5, <1>6 DEF Kinds

(* What one query adds to a request                                        *)
After(r, query, figure, pc) ==
  [pc |-> pc, kind |-> r.kind, tenant |-> r.tenant, period |-> r.period,
   figures |-> [x \in DOMAIN r.figures \cup {query} |->
                  IF x \in DOMAIN r.figures THEN r.figures[x] ELSE figure],
   seen |-> r.seen]

(* What is true depends on the company and the period that are asked for.  *)
LEMMA TrueForBoth ==
  ASSUME NEW r, NEW s, s.tenant = r.tenant, s.period = r.period
  PROVE  \A x, y, state :
           IsTrueFigure(x, y, s, state) <=> IsTrueFigure(x, y, r, state)
<1>1. \A state : /\ SalesInPeriod(state, s) = SalesInPeriod(state, r)
                 /\ MonthIn(s, state) = MonthIn(r, state)
                 /\ TodayIn(s, state) = TodayIn(r, state)
  BY DEF SalesInPeriod, MonthIn, TodayIn
<1> QED
  BY <1>1 DEF IsTrueFigure

(* One more figure, true in the state that has just been seen.             *)
LEMMA ReaderAnswered ==
  ASSUME SalesAssumption, InvoicesTyped, NEW r, ReaderInv(r), ReadingInv(r),
         r.pc = "reading", NEW query, NEW pc,
         query = Queries(r.kind)[Cardinality(DOMAIN r.figures) + 1],
         pc = IF query = Last(Queries(r.kind)) THEN "served" ELSE "reading"
  PROVE  /\ ReaderInv(After(r, query, Answer(query, r.tenant, r.period), pc))
         /\ ReadingInv(After(r, query, Answer(query, r.tenant, r.period), pc))
<1> DEFINE figure == Answer(query, r.tenant, r.period)
           new    == After(r, query, figure, pc)
           done   == DOMAIN r.figures
<1>1. /\ new.pc = pc /\ new.kind = r.kind /\ new.tenant = r.tenant
      /\ new.period = r.period /\ new.seen = r.seen
      /\ new = [pc |-> new.pc, kind |-> new.kind, tenant |-> new.tenant,
                period |-> new.period, figures |-> new.figures,
                seen |-> new.seen]
  BY DEF After
<1>2. /\ DOMAIN new.figures = done \cup {query}
      /\ \A x \in done : new.figures[x] = r.figures[x]
      /\ query \notin done => new.figures[query] = figure
  BY DEF After
<1>3. \A x, y, state :
        IsTrueFigure(x, y, new, state) <=> IsTrueFigure(x, y, r, state)
  <2> HIDE DEF new
  <2> QED
    BY <1>1, TrueForBoth
<1>4. /\ r.kind \in Kinds /\ r.tenant \in Ids /\ r.period \in Periods
      /\ done \in Answered(r.kind, "reading")
      /\ invoice \in r.seen
  BY DEF ReaderInv, ReadingInv
<1>5. /\ query \in AllQueries /\ query \notin done /\ "invoices" \notin done
      /\ query = "invoices" => "by_status" \in done
      /\ done \cup {query} \in Answered(r.kind, pc)
  BY <1>4, NextQuery
<1>6. /\ query = "by_status" =>
           /\ figure \in [DocumentStatus -> Nat]
           /\ SumFunction(figure) <= Cardinality(InvoicesOf(r.tenant))
      /\ query = "invoices" =>
           figure = Cardinality(InvoicesOf(r.tenant)) /\ figure \in Int
  BY CountsFitNow
<1>7. query \notin {"by_status", "invoices"} =>
        figure \in Int /\ IsTrueFigure(query, figure, r, invoice)
  BY <1>4, <1>5, AnswerIsTrue
<1> HIDE DEF new, figure
<1>8. \A x \in DOMAIN new.figures : new.figures[x] \in Figure(x)
  BY <1>2, <1>5, <1>6, <1>7 DEF Figure, ReaderInv
<1>9. ASSUME NEW x \in DOMAIN new.figures \ {"by_status", "invoices"}
      PROVE  \E state \in new.seen :
               IsTrueFigure(x, new.figures[x], new, state)
  <2>1. CASE x \in done
    <3>1. PICK state \in r.seen : IsTrueFigure(x, r.figures[x], r, state)
      BY <1>9, <2>1 DEF ReaderInv
    <3>2. new.figures[x] = r.figures[x] /\ state \in new.seen
      BY <1>1, <1>2, <2>1
    <3>3. IsTrueFigure(x, new.figures[x], new, state)
      BY <1>3, <3>1, <3>2
    <3> QED
      BY <3>2, <3>3
  <2>2. CASE x = query
    <3>1. new.figures[x] = figure /\ IsTrueFigure(x, figure, r, invoice)
      BY <1>2, <1>5, <1>7, <1>9, <2>2
    <3>2. IsTrueFigure(x, new.figures[x], new, invoice) /\ invoice \in new.seen
      BY <1>1, <1>3, <1>4, <3>1
    <3> QED
      BY <3>2
  <2> QED
    BY <1>2, <2>1, <2>2
<1>10. ASSUME "invoices" \in DOMAIN new.figures
       PROVE  SumFunction(new.figures["by_status"]) <= new.figures["invoices"]
  <2>1. query = "invoices" /\ "by_status" \in done
    BY <1>2, <1>5, <1>10
  <2>2. new.figures["invoices"] = figure
          /\ new.figures["by_status"] = r.figures["by_status"]
    BY <1>2, <1>5, <2>1
  <2>3. SumFunction(r.figures["by_status"]) <= Cardinality(InvoicesOf(r.tenant))
    BY <2>1 DEF ReadingInv
  <2> QED
    BY <1>6, <2>1, <2>2, <2>3
<1>11. ReaderInv(new)
  <2>1. pc \in {"reading", "served"}
    OBVIOUS
  <2>2. \A state \in new.seen : IsState(state)
    BY <1>1 DEF ReaderInv
  <2>3. /\ new.pc \in {"reading", "served"} /\ new.kind \in Kinds
        /\ new.tenant \in Ids /\ new.period \in Periods
        /\ DOMAIN new.figures \in Answered(new.kind, new.pc)
    BY <1>1, <1>2, <1>4, <1>5, <2>1
  <2> QED
    BY <1>1, <1>8, <1>9, <1>10, <2>2, <2>3 DEF ReaderInv
<1>12. ReadingInv(new)
  <2>1. invoice \in new.seen
    BY <1>1, <1>4
  <2>2. ASSUME "by_status" \in DOMAIN new.figures
        PROVE  SumFunction(new.figures["by_status"])
                 <= Cardinality(InvoicesOf(new.tenant))
    <3>1. CASE "by_status" \in done
      BY <1>1, <1>2, <3>1 DEF ReadingInv
    <3>2. CASE "by_status" = query
      BY <1>1, <1>2, <1>5, <1>6, <3>2
    <3> QED
      BY <1>2, <2>2, <3>1, <3>2
  <2> QED
    BY <2>1, <2>2 DEF ReadingInv
<1> QED
  BY <1>11, <1>12 DEF new, figure

(* One query of a request.                                                 *)
LEMMA ExecuteQueryStep ==
  ASSUME SalesAssumption, InvoicesTyped, ReadersInv, NEW q \in Readers,
         ExecuteQuery(q)
  PROVE  ReadersInv' /\ InvoicesTyped'
<1> DEFINE r     == reader[q]
           query == Queries(r.kind)[Cardinality(DOMAIN r.figures) + 1]
           pc    == IF query = Last(Queries(r.kind)) THEN "served" ELSE "reading"
           new   == After(r, query, Answer(query, r.tenant, r.period), pc)
<1>1. ReaderInv(r) /\ ReadingInv(r) /\ r.pc = "reading"
  BY DEF ReadersInv, ExecuteQuery
<1>2. ReaderInv(new) /\ ReadingInv(new)
  BY <1>1, ReaderAnswered
<1>3. reader' = [reader EXCEPT ![q] = new]
  <2> DEFINE figs == [x \in DOMAIN r.figures \cup {query} |->
                        IF x \in DOMAIN r.figures THEN r.figures[x]
                        ELSE Answer(x, r.tenant, r.period)]
  <2>1. reader' = [reader EXCEPT ![q].figures = figs, ![q].pc = pc]
    BY DEF ExecuteQuery
  <2>2. figs = [x \in DOMAIN r.figures \cup {query} |->
                  IF x \in DOMAIN r.figures THEN r.figures[x]
                  ELSE Answer(query, r.tenant, r.period)]
    OBVIOUS
  <2>3. r = [pc |-> r.pc, kind |-> r.kind, tenant |-> r.tenant,
             period |-> r.period, figures |-> r.figures, seen |-> r.seen]
    BY <1>1 DEF ReaderInv
  <2> HIDE DEF figs, pc, query
  <2>4. reader' = [reader EXCEPT ![q] = [r EXCEPT !.figures = figs, !.pc = pc]]
    BY <2>1 DEF ReadersInv
  <2> HIDE DEF r
  <2> DEFINE figure == Answer(query, r.tenant, r.period)
  <2> HIDE DEF figure
  <2>5. figs = [x \in DOMAIN r.figures \cup {query} |->
                  IF x \in DOMAIN r.figures THEN r.figures[x] ELSE figure]
    BY <2>2 DEF figure
  <2>6. [r EXCEPT !.figures = figs, !.pc = pc] = After(r, query, figure, pc)
    <3> DEFINE mid == [pc |-> r.pc, kind |-> r.kind, tenant |-> r.tenant,
                       period |-> r.period, figures |-> figs, seen |-> r.seen]
    <3>1. [r EXCEPT !.figures = figs] = mid
      BY <2>3
    <3>2. mid = [pc |-> r.pc, kind |-> r.kind, tenant |-> r.tenant,
                 period |-> r.period, figures |-> figs, seen |-> r.seen]
      OBVIOUS
    <3> HIDE DEF mid
    <3>3. [mid EXCEPT !.pc = pc]
            = [pc |-> pc, kind |-> r.kind, tenant |-> r.tenant,
               period |-> r.period, figures |-> figs, seen |-> r.seen]
      BY <3>2
    <3>4. [r EXCEPT !.figures = figs, !.pc = pc] = [mid EXCEPT !.pc = pc]
      BY <3>1
    <3> QED
      BY <2>5, <3>3, <3>4 DEF After
  <2> QED
    BY <2>4, <2>6 DEF figure
<1> HIDE DEF new
<1>4. /\ DOMAIN reader' = Readers
      /\ reader'[q] = new
      /\ \A p \in Readers : p # q => reader'[p] = reader[p]
  BY <1>3 DEF ReadersInv
<1>5. UNCHANGED invoice
  BY DEF ExecuteQuery
<1>6. \A p \in Readers : ReaderInv(reader'[p])
  BY <1>2, <1>4 DEF ReadersInv
<1>7. \A p \in Readers : ReadingInv(reader'[p])
  BY <1>2, <1>4 DEF ReadersInv
<1>8. ReadersInv'
  <2>1. \A p \in Readers : ReadingInv(reader[p])'
    BY <1>5, <1>7 DEF ReadingInv, InvoicesOf
  <2> QED
    BY <1>4, <1>6, <2>1 DEF ReadersInv
<1> QED
  BY <1>5, <1>8 DEF InvoicesTyped

(* A request begins without figures, and has seen the invoices as they     *)
(* are.                                                                    *)
LEMMA BeginReportStep ==
  ASSUME AccountsAssumption, AccountsTypeOK, InvoicesTyped, ReadersInv,
         NEW q \in Readers, BeginReport(q)
  PROVE  ReadersInv' /\ InvoicesTyped'
<1>1. PICK u \in CurrentUsers, kind \in Kinds, period \in Periods :
        reader' = [reader EXCEPT ![q] =
          [pc |-> "reading", kind |-> kind, tenant |-> u, period |-> period,
           figures |-> NoFigures, seen |-> {invoice}]]
  BY DEF BeginReport
<1> DEFINE new == [pc |-> "reading", kind |-> kind, tenant |-> u,
                   period |-> period, figures |-> NoFigures, seen |-> {invoice}]
<1>2. DOMAIN NoFigures = {}
  BY DEF NoFigures
<1>3. u \in Ids
  BY NoneIsApart DEF CurrentUsers, AccountsTypeOK, Call
<1>4. ReaderInv(new) /\ invoice \in new.seen /\ DOMAIN new.figures = {}
  BY <1>2, <1>3 DEF ReaderInv, Answered, IsState, InvoicesTyped
<1> HIDE DEF new
<1>5. /\ DOMAIN reader' = Readers
      /\ reader'[q] = new
      /\ \A p \in Readers : p # q => reader'[p] = reader[p]
  BY <1>1 DEF ReadersInv, new
<1>6. UNCHANGED invoice
  BY DEF BeginReport
<1>7. ReadingInv(new)
  BY <1>4 DEF ReadingInv
<1>8. \A p \in Readers : ReaderInv(reader'[p]) /\ ReadingInv(reader'[p])
  BY <1>4, <1>5, <1>7 DEF ReadersInv
<1>9. \A p \in Readers : ReadingInv(reader[p])'
  BY <1>6, <1>8 DEF ReadingInv, InvoicesOf
<1> QED
  BY <1>5, <1>6, <1>8, <1>9 DEF ReadersInv, InvoicesTyped

(* Every request that is being served sees the commit, and no company      *)
(* loses an invoice by it.                                                 *)
LEMMA SetInvoiceStep ==
  ASSUME SalesAssumption, InvoicesTyped, ReadersInv, NEW i \in Invoices,
         NEW row \in Invoice, SetInvoice(i, row),
         invoice[i] # None => row.tenant = invoice[i].tenant
  PROVE  ReadersInv' /\ InvoicesTyped'
<1>1. InvoicesTyped'
  BY DEF SetInvoice, InvoicesTyped
<1>2. DOMAIN reader' = Readers
  BY DEF SetInvoice
<1>3. PICK now : now = invoice'
  OBVIOUS
<1>4. IsState(now)
  BY <1>1, <1>3 DEF InvoicesTyped, IsState
<1>5. ASSUME NEW tenant
      PROVE  /\ Cardinality(InvoicesOf(tenant)) <= Cardinality(InvoicesOf(tenant)')
             /\ Cardinality(InvoicesOf(tenant)) \in Nat
             /\ Cardinality(InvoicesOf(tenant)') \in Nat
  <2>1. invoice' = [invoice EXCEPT ![i] = row] /\ row # None
    BY DEF SetInvoice, SalesAssumption, Invoice
  <2>2. InvoicesOf(tenant) \subseteq InvoicesOf(tenant)'
    BY <2>1 DEF InvoicesOf, InvoicesTyped
  <2>3. InvoicesOf(tenant)' \in SUBSET Invoices
    BY DEF InvoicesOf
  <2>4. IsFiniteSet(InvoicesOf(tenant)')
    BY <2>3, FS_Subset DEF SalesAssumption
  <2>5. IsFiniteSet(InvoicesOf(tenant))
    BY <2>2, <2>4, FS_Subset
  <2> QED
    BY <2>2, <2>4, <2>5, FS_Subset, FS_CardinalityType
<1>6. ASSUME NEW q \in Readers
      PROVE  ReaderInv(reader[q])' /\ ReadingInv(reader[q])'
  <2> DEFINE r == reader[q]
  <2>1. ReaderInv(r) /\ ReadingInv(r)
    BY DEF ReadersInv
  <2>2. CASE r.pc # "reading"
    <3>1. reader'[q] = r
      BY <2>2 DEF SetInvoice
    <3> QED
      BY <2>1, <2>2, <3>1 DEF ReaderInv, ReadingInv
  <2>3. CASE r.pc = "reading"
    <3>1. PICK new :
            new = [pc |-> r.pc, kind |-> r.kind, tenant |-> r.tenant,
                   period |-> r.period, figures |-> r.figures,
                   seen |-> r.seen \cup {now}]
      OBVIOUS
    <3>2. reader'[q] = [r EXCEPT !.seen = r.seen \cup {now}]
      BY <1>3, <2>3 DEF SetInvoice
    <3>3. r = [pc |-> r.pc, kind |-> r.kind, tenant |-> r.tenant,
               period |-> r.period, figures |-> r.figures, seen |-> r.seen]
      BY <2>1 DEF ReaderInv
    <3> HIDE DEF r
    <3>4. reader'[q] = new
      BY <3>1, <3>2, <3>3
    <3>5. /\ new.pc = r.pc /\ new.kind = r.kind /\ new.tenant = r.tenant
          /\ new.period = r.period /\ new.figures = r.figures
          /\ new.seen = r.seen \cup {now}
          /\ new = [pc |-> new.pc, kind |-> new.kind, tenant |-> new.tenant,
                    period |-> new.period, figures |-> new.figures,
                    seen |-> new.seen]
      BY <3>1
    <3>6. \A x, y, state :
            IsTrueFigure(x, y, new, state) <=> IsTrueFigure(x, y, r, state)
      BY <3>5, TrueForBoth
    <3>7. ReaderInv(new)
      <4>1. ASSUME NEW x \in DOMAIN new.figures \ {"by_status", "invoices"}
            PROVE  \E state \in new.seen :
                     IsTrueFigure(x, new.figures[x], new, state)
        <5>1. PICK state \in r.seen : IsTrueFigure(x, r.figures[x], r, state)
          BY <2>1, <3>5, <4>1 DEF ReaderInv
        <5> QED
          BY <3>5, <3>6, <5>1
      <4>2. \A state \in new.seen : IsState(state)
        BY <1>4, <2>1, <3>5 DEF ReaderInv
      <4>3. /\ new.pc \in {"reading", "served"} /\ new.kind \in Kinds
            /\ new.tenant \in Ids /\ new.period \in Periods
            /\ DOMAIN new.figures \in Answered(new.kind, new.pc)
        BY <2>1, <2>3, <3>5 DEF ReaderInv
      <4>4. /\ \A query \in DOMAIN new.figures :
                 new.figures[query] \in Figure(query)
            /\ "invoices" \in DOMAIN new.figures =>
                 SumFunction(new.figures["by_status"]) <= new.figures["invoices"]
        BY <2>1, <3>5 DEF ReaderInv
      <4> QED
        BY <3>5, <4>1, <4>2, <4>3, <4>4 DEF ReaderInv
    <3>8. ReadingInv(reader[q])'
      <4>1. invoice' \in new.seen
        BY <1>3, <3>5
      <4>2. ASSUME "by_status" \in DOMAIN new.figures
            PROVE  SumFunction(new.figures["by_status"])
                     <= Cardinality(InvoicesOf(new.tenant)')
        <5>1. PICK counts : counts = r.figures["by_status"]
          OBVIOUS
        <5>2. counts \in [DocumentStatus -> Nat]
          BY <2>1, <3>5, <4>2, <5>1 DEF ReaderInv, Figure
        <5>3. SumFunction(counts) \in Int
          <6>1. counts \in [DocumentStatus -> Int]
            BY <5>2
          <6> QED
            BY <6>1, StatusesAreFinite, SumIsInt
        <5>4. SumFunction(counts) <= Cardinality(InvoicesOf(new.tenant))
          BY <2>1, <2>3, <3>5, <4>2, <5>1 DEF ReadingInv
        <5>5. /\ Cardinality(InvoicesOf(new.tenant))
                   <= Cardinality(InvoicesOf(new.tenant)')
              /\ Cardinality(InvoicesOf(new.tenant)) \in Nat
              /\ Cardinality(InvoicesOf(new.tenant)') \in Nat
          BY <1>5
        <5>6. SumFunction(counts) <= Cardinality(InvoicesOf(new.tenant)')
          BY <5>3, <5>4, <5>5
        <5> QED
          BY <3>5, <5>1, <5>6
      <4> QED
        BY <3>4, <4>1, <4>2 DEF ReadingInv
    <3> QED
      BY <3>4, <3>7, <3>8
  <2> QED
    BY <2>2, <2>3
<1> QED
  BY <1>1, <1>2, <1>6 DEF ReadersInv

(* The inductive invariant of the requests.                                *)
SalesInv == AccountsTypeOK /\ InvoicesTyped /\ ReadersInv /\ changes \in Nat

(* Seeded invoices and idle readers satisfy the invariant.                 *)
LEMMA SalesInitially ==
  ASSUME AccountsAssumption, SalesAssumption, SalesInit PROVE SalesInv
<1>1. AccountsTypeOK
  BY AccountsInitially DEF SalesInit, AccountsInv
<1>2. DOMAIN NoFigures = {}
  BY DEF NoFigures
<1>3. ASSUME NEW q \in Readers
      PROVE  ReaderInv(reader[q]) /\ ReadingInv(reader[q])
  <2>1. reader[q] = [pc |-> "idle", kind |-> None, tenant |-> None,
                     period |-> None, figures |-> NoFigures, seen |-> {}]
    BY DEF SalesInit
  <2> QED
    BY <1>2, <2>1 DEF ReaderInv, ReadingInv
<1>4. DOMAIN reader = Readers /\ changes \in Nat
  BY DEF SalesInit
<1> QED
  BY <1>1, <1>3, <1>4, InvoicesTypedInitially DEF SalesInv, ReadersInv

(* Commits, reports and the calls of Accounts keep the invariant.          *)
LEMMA SalesStep ==
  ASSUME AccountsAssumption, SalesAssumption, SalesInv, [SalesNext]_companyVars
  PROVE  InvoicesTyped' /\ ReadersInv' /\ changes' \in Nat
<1> USE DEF SalesInv
<1>1. CASE UNCHANGED salesVars
  <2>1. invoice' = invoice /\ reader' = reader /\ changes' = changes
    BY <1>1 DEF salesVars
  <2> QED
    BY <2>1 DEF InvoicesTyped, ReadersInv, ReaderInv, ReadingInv, InvoicesOf
<1>2. ASSUME NEW i \in Invoices, ChangeInvoice(i)
      PROVE  InvoicesTyped' /\ ReadersInv' /\ changes' \in Nat
  <2>1. PICK row \in Invoice :
          /\ SetInvoice(i, row)
          /\ invoice[i] # None => row.tenant = invoice[i].tenant
    BY <1>2, InvoicesTypedStep
  <2>2. SetInvoice(i, row)
    BY <2>1
  <2>3. ReadersInv' /\ InvoicesTyped'
    BY <2>1, <2>2, SetInvoiceStep
  <2>4. changes' = changes + 1
    BY <2>2 DEF SetInvoice
  <2> QED
    BY <2>3, <2>4
<1>3. ASSUME NEW q \in Readers, Report(q)
      PROVE  InvoicesTyped' /\ ReadersInv' /\ changes' \in Nat
  <2>1. changes' = changes
    BY <1>3 DEF Report, BeginReport, ExecuteQuery
  <2> QED
    BY <1>3, <2>1, BeginReportStep, ExecuteQueryStep DEF Report
<1> QED
  BY <1>1, <1>2, <1>3 DEF SalesNext, companyVars

(* SalesInv is an inductive invariant, given that of the accounts.         *)
THEOREM SalesInvariant ==
  ASSUME AccountsAssumption, SalesAssumption PROVE SalesSpec => []SalesInv
<1>1. SalesInit => SalesInv
  BY SalesInitially
<1>2. SalesInv /\ AccountsTypeOK' /\ [SalesNext]_companyVars => SalesInv'
  BY SalesStep DEF SalesInv
<1>3. SalesSpec => []AccountsTypeOK
  BY SalesImplementsAccounts, AccountsTypes, PTL
<1> QED
  BY <1>1, <1>2, <1>3, PTL DEF SalesSpec

-----------------------------------------------------------------------------
(* What the reports and the dashboard promise *)

(* The variables keep their types.                                         *)
THEOREM SalesTypes ==
  ASSUME AccountsAssumption, SalesAssumption
  PROVE  SalesSpec => []SalesTypeOK
<1>1. ASSUME SalesInv PROVE SalesTypeOK
  <2>1. ASSUME NEW q \in Readers
        PROVE  /\ reader[q] \in Reader(reader[q].figures)
               /\ \A query \in DOMAIN reader[q].figures :
                    reader[q].figures[query] \in Figure(query)
    <3>1. PICK r : r = reader[q]
      OBVIOUS
    <3>2. ReaderInv(r)
      BY <1>1, <3>1 DEF SalesInv, ReadersInv
    <3>3. /\ r.pc \in {"idle", "reading", "served"}
          /\ r.kind \in Kinds \cup {None} /\ r.tenant \in Ids \cup {None}
          /\ r.period \in Periods \cup {None}
      BY <3>2 DEF ReaderInv
    <3>4. r.seen \in SUBSET [Invoices -> Invoice \cup {None}]
      BY <3>2 DEF ReaderInv, IsState
    <3>5. r = [pc |-> r.pc, kind |-> r.kind, tenant |-> r.tenant,
               period |-> r.period, figures |-> r.figures, seen |-> r.seen]
      BY <3>2 DEF ReaderInv
    <3>6. r \in Reader(r.figures)
      BY <3>3, <3>4, <3>5 DEF Reader
    <3> QED
      BY <3>1, <3>2, <3>6 DEF ReaderInv
  <2> QED
    BY <1>1, <2>1 DEF SalesInv, SalesTypeOK, ReadersInv, InvoicesTyped
<1> QED
  BY <1>1, SalesInvariant, PTL

(* A request that has been served has all its figures.                     *)
LEMMA ServedHasFigures ==
  ASSUME SalesInv, NEW kind \in Kinds, NEW r \in Served(kind)
  PROVE  /\ ReaderInv(r)
         /\ kind = "sales_report" =>
              /\ r.kind = "sales_report"
              /\ DOMAIN r.figures = {"total", "count", "tax"}
         /\ kind = "dashboard" =>
              DOMAIN r.figures
                = {"by_status", "sales_month", "sales_today", "invoices"}
<1>1. ReaderInv(r) /\ r.pc = "served" /\ r.kind = kind
  BY DEF Served, SalesInv, ReadersInv
<1>2. DOMAIN r.figures \in Answered(kind, "served")
  BY <1>1 DEF ReaderInv
<1> QED
  BY <1>1, <1>2 DEF Answered

(* DashboardService: each of the two sales figures was true at some moment *)
(* while the dashboard was computed, however many invoices changed.        *)
THEOREM DashboardSales ==
  ASSUME AccountsAssumption, SalesAssumption
  PROVE  SalesSpec => []DashboardSalesWereTrue
<1>1. ASSUME SalesInv PROVE DashboardSalesWereTrue
  <2> SUFFICES ASSUME NEW r \in Served("dashboard")
               PROVE  /\ \E state \in r.seen :
                           r.figures.sales_month = MonthIn(r, state)
                      /\ \E state \in r.seen :
                           r.figures.sales_today = TodayIn(r, state)
    BY Zenon DEF DashboardSalesWereTrue, MonthIn, TodayIn
  <2>1. "dashboard" \in Kinds
    BY DEF Kinds
  <2>2. /\ ReaderInv(r)
        /\ DOMAIN r.figures
             = {"by_status", "sales_month", "sales_today", "invoices"}
    BY <1>1, <2>1, ServedHasFigures
  <2>3. /\ \E state \in r.seen :
             IsTrueFigure("sales_month", r.figures["sales_month"], r, state)
        /\ \E state \in r.seen :
             IsTrueFigure("sales_today", r.figures["sales_today"], r, state)
    BY <2>2 DEF ReaderInv
  <2> QED
    BY <2>3 DEF IsTrueFigure
<1> QED
  BY <1>1, SalesInvariant, PTL

(* DashboardService: the counts by status never add up to more than the    *)
(* number of invoices that the dashboard shows beside them.                *)
THEOREM DashboardCounts ==
  ASSUME AccountsAssumption, SalesAssumption
  PROVE  SalesSpec => []DashboardCountsFit
<1>1. ASSUME SalesInv PROVE DashboardCountsFit
  <2> SUFFICES ASSUME NEW r \in Served("dashboard")
               PROVE  SumFunction(r.figures.by_status) <= r.figures.invoices
    BY DEF DashboardCountsFit
  <2>1. "dashboard" \in Kinds
    BY DEF Kinds
  <2>2. ReaderInv(r) /\ "invoices" \in DOMAIN r.figures
    BY <1>1, <2>1, ServedHasFigures
  <2> QED
    BY <2>2 DEF ReaderInv
<1> QED
  BY <1>1, SalesInvariant, PTL

(* ReportService.sales_report: a report during which no invoice changed is *)
(* exact, the subtotals being what the totals have more than the taxes.    *)
THEOREM QuietReports ==
  ASSUME AccountsAssumption, SalesAssumption
  PROVE  SalesSpec => []QuietReportsAreExact
<1>1. ASSUME SalesInv PROVE QuietReportsAreExact
  <2> SUFFICES ASSUME NEW r \in Served("sales_report"),
                      NEW state \in r.seen, r.seen = {state}
               PROVE  /\ r.figures.total
                           = TotalsIn(state, SalesInPeriod(state, r))
                      /\ r.figures.count
                           = Cardinality(SalesInPeriod(state, r))
                      /\ r.figures.total - r.figures.tax
                           = SubtotalsIn(state, SalesInPeriod(state, r))
    BY DEF QuietReportsAreExact
  <2>1. "sales_report" \in Kinds
    BY DEF Kinds
  <2>2. ReaderInv(r) /\ DOMAIN r.figures = {"total", "count", "tax"}
    BY <1>1, <2>1, ServedHasFigures
  <2>3. \A x \in {"total", "count", "tax"} :
          IsTrueFigure(x, r.figures[x], r, state)
    BY <2>2 DEF ReaderInv
  <2>4. PICK sales : sales = SalesInPeriod(state, r)
    OBVIOUS
  <2>5. sales \in SUBSET Invoices /\ \A i \in sales : state[i] # None
    BY <2>4 DEF SalesInPeriod, SalesIn, IsSale
  <2>6. IsState(state)
    BY <2>2 DEF ReaderInv
  <2>7. TotalsIn(state, sales) \in Int /\ SubtotalsIn(state, sales) \in Int
    BY <2>5, <2>6, SumsOfSales
  <2>8. /\ r.figures["total"] = TotalsIn(state, sales)
        /\ r.figures["count"] = Cardinality(sales)
        /\ r.figures["tax"]
             = TotalsIn(state, sales) - SubtotalsIn(state, sales)
    BY <2>3, <2>4 DEF IsTrueFigure
  <2> QED
    BY <2>4, <2>7, <2>8
<1> QED
  BY <1>1, SalesInvariant, PTL
=============================================================================
