--------------------------- MODULE LineCalculator ---------------------------
(***************************************************************************)
(* The amounts of a document: services/line_calculator.py, called for each *)
(* line by create and update of the three document services, beside the    *)
(* catalogue operations of services/product_service.py.                    *)
(*                                                                         *)
(* Decimals are integers: amounts in cents, and input values with one      *)
(* digit more than the column they are stored in, quantities in 1/100000,  *)
(* prices in 1/1000, rates in 1/1000 of a per cent.                        *)
(***************************************************************************)
EXTENDS Integers, Sequences, Functions

CONSTANTS
  Requests,    \* the creations of a document, each of which is served once
  Products,
  None,        \* a field that is left out
  Quantities,  \* the quantities a line may have
  Prices,      \* the prices a line or a product may be given
  Rates,       \* the tax rates a line or a product may be given
  MaxLines     \* bound on the lines of a document

(* InvoiceLineInput.quantity, ProductCreate.tax_rate: Field(gt=0), ge=0    *)
ASSUME InputAssumption ==
  /\ Quantities \subseteq Nat \ {0}
  /\ Prices \subseteq Int
  /\ Rates \subseteq Nat
  /\ None \notin Prices \cup Rates \cup Products
  /\ MaxLines \in Nat \ {0}

VARIABLES
  catalog,  \* the products table
  req,      \* where each creation is, and the lines it has resolved
  shown     \* the active products each creation could have seen (history)

vars == <<catalog, req, shown>>

Abs(x) == IF x < 0 THEN -x ELSE x

(* Fault: the decimals are cut off.                                        *)
Truncate(x, unit) == x \div unit

(* Decimal.quantize: ROUND_HALF_EVEN, of x units to multiples of unit      *)
Quantize(x, unit) ==
  LET down == x \div unit
      rest == 2 * (x % unit)
  IN IF rest > unit \/ (rest = unit /\ down % 2 = 1) THEN down + 1 ELSE down

(* A NUMERIC column keeps one digit less than an input has, and rounds     *)
(* ties away from zero.                                                    *)
Column(x) ==
  LET size == 10 * ((Abs(x) + 5) \div 10) IN IF x < 0 THEN -size ELSE size

Amounts(subtotal, tax) ==
  [subtotal |-> subtotal, tax |-> tax, total |-> subtotal + tax]

(* Fault: the total is rounded from the exact one.                         *)
CalculateLineRoundedOnce(quantity, price, rate) ==
  LET subtotal == Quantize(quantity * price, 1000000)
  IN [Amounts(subtotal, Quantize(subtotal * rate, 100000)) EXCEPT
        !.total = Quantize(((quantity * price) \div 10000) *
                             ((100000 + rate) \div 1000), 10000)]

CalculateLine(quantity, price, rate) ==
  LET subtotal == Quantize(quantity * price, 1000000)
  IN Amounts(subtotal, Quantize(subtotal * rate, 100000))

SumOf(lines, amount) ==
  SumFunction([i \in DOMAIN lines |-> lines[i].amounts[amount]])

SumLines(lines) ==
  [a \in {"subtotal", "tax", "total"} |-> SumOf(lines, a)]

-----------------------------------------------------------------------------
(* What a line of a product would be sold at now                           *)
Available == {p \in Products : catalog[p] # None /\ catalog[p].active}

ActiveProducts ==
  {<<p, catalog[p].price, catalog[p].rate>> : p \in Available}

Init ==
  /\ catalog = [p \in Products |-> None]
  /\ req = [r \in Requests |-> [pc |-> "idle", lines |-> <<>>, totals |-> None]]
  /\ shown = [r \in Requests |-> {}]

SetProduct(p, product) ==
  /\ catalog' = [catalog EXCEPT ![p] = product]
  /\ shown' = [r \in Requests |->
                 IF req[r].pc = "resolving"
                   THEN shown[r] \cup ActiveProducts' ELSE shown[r]]
  /\ UNCHANGED req

(* Fault: the catalogue keeps prices of three decimals, the lines two.     *)
CreateProductExact(p, price, rate) ==
  /\ catalog[p] = None
  /\ SetProduct(p, [price |-> price, rate |-> Column(rate), active |-> TRUE])

CreateProduct(p, price, rate) ==
  /\ catalog[p] = None
  /\ price > 0 /\ rate <= 100000
  /\ SetProduct(p, [price |-> Column(price), rate |-> Column(rate),
                    active |-> TRUE])

(* PATCH may also reactivate a product.                                    *)
UpdateProduct(p, price, rate, active) ==
  /\ catalog[p] # None
  /\ price > 0 /\ rate <= 100000
  /\ SetProduct(p, [price |-> Column(price), rate |-> Column(rate),
                    active |-> active])

DeleteProduct(p) ==
  /\ catalog[p] # None
  /\ SetProduct(p, [catalog[p] EXCEPT !.active = FALSE])

-----------------------------------------------------------------------------
Begin(r) ==
  /\ req[r].pc = "idle"
  /\ req' = [req EXCEPT ![r].pc = "resolving"]
  /\ shown' = [shown EXCEPT ![r] = ActiveProducts]
  /\ UNCHANGED catalog

(* A line of a request: line.model_dump() has every field, None if it was  *)
(* left out.                                                               *)
LineInput == [product : Products \cup {None}, quantity : Quantities,
              price : Prices \cup {None}, rate : Rates \cup {None}]

(* The line gets its price and rate from the product or from the request.  *)
AddLine(r, input, priced) ==
  req' = [req EXCEPT ![r].lines = Append(req[r].lines,
           [product |-> input.product, quantity |-> input.quantity,
            price |-> priced.price, rate |-> priced.rate,
            amounts |-> CalculateLine(input.quantity, priced.price,
                                      priced.rate)])]

(* Fault: a product that was deactivated is still sold.                    *)
ResolveAnyProduct(r, input) ==
  /\ input.product # None
  /\ catalog[input.product] # None
  /\ AddLine(r, input, catalog[input.product])

(* The product's row is read for each line: price and tax are the          *)
(* product's, whatever the request says.                                   *)
ResolveProductLine(r, input) ==
  /\ input.product \in Available
  /\ AddLine(r, input, catalog[input.product])

ResolveFreeLine(r, input) ==
  /\ input.product = None
  /\ input.price # None
  /\ input.rate # None
  /\ AddLine(r, input, input)

(* 404 without an active product; Decimal("None") fails when the price or  *)
(* the rate was left out.  Either way the transaction is rolled back.      *)
RefuseLine(r, input) ==
  /\ \/ input.product \in Products \ Available
     \/ input.product = None /\ None \in {input.price, input.rate}
  /\ req' = [req EXCEPT ![r].pc = "refused", ![r].lines = <<>>]

ResolveLine(r) ==
  /\ req[r].pc = "resolving"
  /\ Len(req[r].lines) < MaxLines
  /\ \E input \in LineInput :
       ResolveProductLine(r, input) \/ ResolveFreeLine(r, input)
         \/ RefuseLine(r, input)
  /\ UNCHANGED <<catalog, shown>>

(* The columns round what the client gave.                                 *)
Stored(line) ==
  [line EXCEPT !.quantity = Column(line.quantity),
               !.price = Column(line.price), !.rate = Column(line.rate)]

(* The totals are those of the lines as resolved.                          *)
SaveDocument(r) ==
  /\ req[r].pc = "resolving"
  /\ req[r].lines # <<>>
  /\ req' = [req EXCEPT ![r] =
       [pc |-> "saved", totals |-> SumLines(req[r].lines),
        lines |-> [i \in DOMAIN req[r].lines |-> Stored(req[r].lines[i])]]]
  /\ UNCHANGED <<catalog, shown>>

Next ==
  \/ \E p \in Products, price \in Prices, rate \in Rates :
       \/ CreateProduct(p, price, rate)
       \/ \E active \in BOOLEAN : UpdateProduct(p, price, rate, active)
  \/ \E p \in Products : DeleteProduct(p)
  \/ \E r \in Requests : Begin(r) \/ ResolveLine(r) \/ SaveDocument(r)

Spec == Init /\ [][Next]_vars

-----------------------------------------------------------------------------
ColumnValues == {x \in Int : x % 10 = 0}

Product == [price : ColumnValues, rate : ColumnValues, active : BOOLEAN]

Line == [product : Products \cup {None}, quantity : Int, price : Int,
         rate : Int, amounts : [subtotal : Int, tax : Int, total : Int]]

TypeOK ==
  /\ catalog \in [Products -> Product \cup {None}]
  /\ shown \in [Requests -> SUBSET (Products \X ColumnValues \X ColumnValues)]
  /\ DOMAIN req = Requests
  /\ \A r \in Requests :
       /\ req[r] = [pc |-> req[r].pc, lines |-> req[r].lines,
                    totals |-> req[r].totals]
       /\ req[r].pc \in {"idle", "resolving", "saved", "refused"}
       /\ req[r].lines \in Seq(Line)
       /\ Len(req[r].lines) <= MaxLines

(* What rounding means: the nearest multiple, the even one of two.         *)
IsNearest(n, x, unit) ==
  LET error == 2 * Abs(n * unit - x)
  IN error < unit \/ (error = unit /\ n % 2 = 0)

AreNearest(amounts, quantity, price, rate) ==
  /\ IsNearest(amounts.subtotal, quantity * price, 1000000)
  /\ IsNearest(amounts.tax, amounts.subtotal * rate, 100000)

LinesAt(pc) ==
  UNION {Range(req[r].lines) : r \in {s \in Requests : req[s].pc = pc}}

(* The base of a line is the cent nearest to quantity times price, and its *)
(* tax the cent nearest to the rate of that base, for negative prices too. *)
AmountsAreNearest ==
  \A line \in LinesAt("resolving") :
    AreNearest(line.amounts, line.quantity, line.price, line.rate)

(* The total of a document is its base plus its tax, although each is a    *)
(* sum of rounded amounts of its own.                                      *)
TotalIsBasePlusTax ==
  \A r \in Requests :
    req[r].pc = "saved" =>
      req[r].totals.total = req[r].totals.subtotal + req[r].totals.tax

(* A stored value that was given as it is stored                           *)
WasKept(x, values) == \A v \in values : Column(v) = x => v = x

(* The tax of a document with one rate differs from the rate of its base   *)
(* by at most half a cent per line.                                        *)
TaxDriftIsBounded ==
  \A r \in Requests : \A rate \in Rates :
    req[r].pc = "saved" /\ WasKept(rate, Rates) /\
    (\A line \in Range(req[r].lines) : line.rate = rate) =>
      2 * Abs(req[r].totals.tax * 100000 - req[r].totals.subtotal * rate)
        <= 100000 * Len(req[r].lines)

(* A line of a product is sold at a price and a tax rate that the active   *)
(* product had while the request was served, not at what the client says   *)
(* nor at those of a product withdrawn before.                             *)
ProductLinesUseCatalog ==
  \A r \in Requests :
    \A line \in Range(req[r].lines) :
      line.product # None =>
        <<line.product, line.price, line.rate>> \in shown[r]


(* The amounts of a stored line of a product can be recomputed from its    *)
(* columns, as the XML and the PDF do for the reader, when the quantity    *)
(* had no more decimals than its column: no price or rate is rounded       *)
(* after the amounts were computed from it.                                *)
ProductLinesRecompute ==
  \A line \in LinesAt("saved") :
    line.product # None /\ WasKept(line.quantity, Quantities) =>
      line.amounts = CalculateLine(line.quantity, line.price, line.rate)

-----------------------------------------------------------------------------
(* The inductive invariant: a request that is still resolving its lines    *)
(* could have seen whatever is active now, and keeps the amounts of the    *)
(* lines it has as they were computed.                                     *)
ResolvingSeeCatalog ==
  \A r \in Requests :
    req[r].pc = "resolving" => ActiveProducts \subseteq shown[r]

LinesAreCalculated ==
  \A r \in Requests :
    req[r].pc = "resolving" =>
      \A i \in DOMAIN req[r].lines :
        req[r].lines[i].amounts =
          CalculateLine(req[r].lines[i].quantity, req[r].lines[i].price,
                        req[r].lines[i].rate)

IdleHaveNoLines ==
  \A r \in Requests : req[r].pc = "idle" => req[r].lines = <<>>

CalculatorInv ==
  /\ TypeOK
  /\ ResolvingSeeCatalog
  /\ IdleHaveNoLines
  /\ LinesAreCalculated
  /\ ProductLinesUseCatalog
=============================================================================
