------------------------ MODULE LineCalculatorProofs ------------------------
(* Proofs about LineCalculator, for every set of products, prices, rates   *)
(* and quantities and any number of documents and lines.                   *)
EXTENDS LineCalculator, SumProofs

-----------------------------------------------------------------------------
(* Decimal.quantize returns the nearest multiple, ties to even, for the    *)
(* two units calculate_line rounds to.                                     *)
LEMMA QuantizeIsNearest ==
  ASSUME NEW x \in Int, NEW unit \in {100000, 1000000}
  PROVE  Quantize(x, unit) \in Int /\ IsNearest(Quantize(x, unit), x, unit)
<1>1. CASE unit = 100000
  BY <1>1, SMT DEF Quantize, IsNearest, Abs
<1>2. CASE unit = 1000000
  BY <1>2, SMT DEF Quantize, IsNearest, Abs
<1> QED  BY <1>1, <1>2

(* What the clients send are numbers.                                      *)
LEMMA InputsAreNumbers ==
  /\ Quantities \subseteq Int /\ Prices \subseteq Int /\ Rates \subseteq Int
  /\ MaxLines \in Nat
  BY InputAssumption DEF InputAssumption

(* A column keeps what fits it, and what it keeps fits it.                 *)
LEMMA ColumnFits ==
  ASSUME NEW x \in Int
  PROVE  Column(x) \in ColumnValues /\ (x \in ColumnValues => Column(x) = x)
BY SMT DEF Column, ColumnValues, Abs

(* The amounts of a line are integers, and its base and tax are rounded    *)
(* to the nearest cent.                                                    *)
LEMMA CalculatedLine ==
  ASSUME NEW quantity \in Int, NEW price \in Int, NEW rate \in Int
  PROVE  /\ CalculateLine(quantity, price, rate)
              \in [subtotal : Int, tax : Int, total : Int]
         /\ AreNearest(CalculateLine(quantity, price, rate),
                       quantity, price, rate)
<1> DEFINE subtotal == Quantize(quantity * price, 1000000)
           tax      == Quantize(subtotal * rate, 100000)
<1>1. quantity * price \in Int
  OBVIOUS
<1>2. subtotal \in Int /\ IsNearest(subtotal, quantity * price, 1000000)
  BY <1>1, QuantizeIsNearest
<1> HIDE DEF subtotal
<1>3. subtotal * rate \in Int
  BY <1>2
<1>4. tax \in Int /\ IsNearest(tax, subtotal * rate, 100000)
  BY <1>3, QuantizeIsNearest
<1> HIDE DEF tax
<1>5. CalculateLine(quantity, price, rate)
        = [subtotal |-> subtotal, tax |-> tax, total |-> subtotal + tax]
  BY DEF CalculateLine, Amounts, subtotal, tax
<1> QED  BY <1>2, <1>4, <1>5 DEF AreNearest

-----------------------------------------------------------------------------
(* What calculate_line returns is nearest to base and tax, and in cents.   *)
LEMMA CalculatedAmounts ==
  \A quantity, price, rate \in Int :
    /\ CalculateLine(quantity, price, rate)
         \in [subtotal : Int, tax : Int, total : Int]
    /\ AreNearest(CalculateLine(quantity, price, rate), quantity, price, rate)
  BY CalculatedLine

(* A step of the catalogue: what becomes active is shown to every request  *)
(* that is resolving its lines.                                            *)
LEMMA CatalogStep ==
  ASSUME CalculatorInv, NEW p \in Products, NEW product \in Product,
         SetProduct(p, product)
  PROVE  CalculatorInv'
<1> USE DEF CalculatorInv
<1>1. /\ catalog' = [catalog EXCEPT ![p] = product]
      /\ req' = req
      /\ shown' = [r \in Requests |->
                     IF req[r].pc = "resolving"
                       THEN shown[r] \cup ActiveProducts' ELSE shown[r]]
  BY DEF SetProduct
<1>2. catalog' \in [Products -> Product \cup {None}]
  BY <1>1 DEF TypeOK
<1>3. ActiveProducts' \subseteq Products \X ColumnValues \X ColumnValues
  <2>1. \A q \in Available' : q \in Products /\ catalog'[q] \in Product
    BY <1>2 DEF Available
  <2> QED
    BY <2>1 DEF ActiveProducts, Product
<1> HIDE DEF ActiveProducts
<1>4. TypeOK'
  BY <1>1, <1>2, <1>3 DEF TypeOK
<1>5. ResolvingSeeCatalog'
  BY <1>1 DEF ResolvingSeeCatalog
<1>6. LinesAreCalculated' /\ IdleHaveNoLines'
  BY <1>1 DEF LinesAreCalculated, IdleHaveNoLines
<1>7. ProductLinesUseCatalog'
  BY <1>1 DEF ProductLinesUseCatalog
<1> QED  BY <1>4, <1>5, <1>6, <1>7

(* A request that takes one more line.                                     *)
LEMMA AppendLineStep ==
  ASSUME CalculatorInv, NEW r \in Requests, NEW new \in Line,
         req[r].pc = "resolving", Len(req[r].lines) < MaxLines,
         new.amounts = CalculateLine(new.quantity, new.price, new.rate),
         new.product # None =>
           <<new.product, new.price, new.rate>> \in shown[r],
         req' = [req EXCEPT ![r].lines = Append(req[r].lines, new)],
         UNCHANGED <<catalog, shown>>
  PROVE  CalculatorInv'
<1>1. /\ DOMAIN req = Requests
      /\ \A s \in Requests :
           /\ req[s] = [pc |-> req[s].pc, lines |-> req[s].lines,
                        totals |-> req[s].totals]
           /\ req[s].lines \in Seq(Line)
           /\ Len(req[s].lines) \in Nat
  BY DEF CalculatorInv, TypeOK
<1>2. req'[r] = [pc |-> "resolving", lines |-> Append(req[r].lines, new),
                 totals |-> req[r].totals]
  <2>1. req'[r] = [req[r] EXCEPT !.lines = Append(req[r].lines, new)]
    BY <1>1
  <2>2. req[r] = [pc |-> "resolving", lines |-> req[r].lines,
                  totals |-> req[r].totals]
    BY <1>1
  <2> QED
    BY <2>1, <2>2
<1>3. \A s \in Requests \ {r} : req'[s] = req[s]
  BY <1>1
<1>4. /\ req'[r].lines \in Seq(Line)
       /\ Len(req'[r].lines) = Len(req[r].lines) + 1
       /\ DOMAIN req'[r].lines = 1 .. Len(req[r].lines) + 1
       /\ \A i \in 1 .. Len(req[r].lines) : req'[r].lines[i] = req[r].lines[i]
       /\ req'[r].lines[Len(req[r].lines) + 1] = new
       /\ DOMAIN req[r].lines = 1 .. Len(req[r].lines)
  BY <1>1, <1>2
<1>5. TypeOK'
  <2>1. \A s \in Requests :
          /\ req'[s] = [pc |-> req'[s].pc, lines |-> req'[s].lines,
                        totals |-> req'[s].totals]
          /\ req'[s].pc \in {"idle", "resolving", "saved", "refused"}
    BY <1>1, <1>2, <1>3 DEF CalculatorInv, TypeOK
  <2>2. \A s \in Requests :
          /\ req'[s].lines \in Seq(Line)
          /\ Len(req'[s].lines) <= MaxLines
    BY <1>1, <1>3, <1>4, InputsAreNumbers DEF CalculatorInv, TypeOK
  <2>3. DOMAIN req' = Requests
    BY <1>1
  <2> QED
    BY <2>1, <2>2, <2>3 DEF CalculatorInv, TypeOK
<1>6. ResolvingSeeCatalog'
  <2>1. ActiveProducts' = ActiveProducts
    BY DEF ActiveProducts, Available
  <2> QED
    BY <1>2, <1>3, <2>1 DEF CalculatorInv, ResolvingSeeCatalog
<1>7. LinesAreCalculated' /\ IdleHaveNoLines'
  BY <1>1, <1>2, <1>3, <1>4
     DEF CalculatorInv, LinesAreCalculated, IdleHaveNoLines
<1>8. ProductLinesUseCatalog'
  <2>1. ASSUME NEW line \in Range(req'[r].lines), line.product # None
        PROVE  <<line.product, line.price, line.rate>> \in shown'[r]
    <3>1. line = new \/ line \in Range(req[r].lines)
      BY <1>1, <1>4 DEF Range
    <3> QED
      BY <2>1, <3>1 DEF CalculatorInv, ProductLinesUseCatalog
  <2> QED
    BY <1>3, <2>1 DEF CalculatorInv, ProductLinesUseCatalog
<1> QED  BY <1>5, <1>6, <1>7, <1>8 DEF CalculatorInv

(* The line is priced by an active product or, without a product, by the   *)
(* request itself.                                                         *)
LEMMA AddLineStep ==
  ASSUME CalculatorInv, NEW r \in Requests, NEW input \in LineInput, NEW priced,
         req[r].pc = "resolving", Len(req[r].lines) < MaxLines,
         priced.price \in Int, priced.rate \in Int,
         input.product # None =>
           <<input.product, priced.price, priced.rate>> \in shown[r],
         AddLine(r, input, priced), UNCHANGED <<catalog, shown>>
  PROVE  CalculatorInv'
<1>1. input.product \in Products \cup {None} /\ input.quantity \in Int
  <2>1. input.product \in Products \cup {None} /\ input.quantity \in Quantities
    BY DEF LineInput
  <2>2. Quantities \subseteq Int
    BY InputsAreNumbers
  <2> QED
    BY <2>1, <2>2
<1>2. CalculateLine(input.quantity, priced.price, priced.rate)
        \in [subtotal : Int, tax : Int, total : Int]
  BY <1>1, CalculatedAmounts
<1>3. PICK new :
        new = [product |-> input.product, quantity |-> input.quantity,
               price |-> priced.price, rate |-> priced.rate,
               amounts |-> CalculateLine(input.quantity, priced.price,
                                         priced.rate)]
  OBVIOUS
<1>4. new \in Line
  BY <1>1, <1>2, <1>3 DEF Line
<1>5. req' = [req EXCEPT ![r].lines = Append(req[r].lines, new)]
  BY <1>3 DEF AddLine
<1>6. new.amounts = CalculateLine(new.quantity, new.price, new.rate)
  BY <1>3
<1>7. new.product # None => <<new.product, new.price, new.rate>> \in shown[r]
  BY <1>3
<1> QED  BY <1>4, <1>5, <1>6, <1>7, AppendLineStep

(* A request that begins, is refused or is saved leaves the others alone.  *)
LEMMA BeginStep ==
  ASSUME CalculatorInv, NEW r \in Requests, Begin(r)
  PROVE  CalculatorInv'
<1>1. /\ req' = [req EXCEPT ![r].pc = "resolving"]
      /\ req[r].pc = "idle"
      /\ shown' = [shown EXCEPT ![r] = ActiveProducts]
      /\ catalog' = catalog
  BY DEF Begin
<1>2. TypeOK /\ ProductLinesUseCatalog
  BY DEF CalculatorInv
<1>3. req[r].lines = <<>>
  BY <1>1 DEF CalculatorInv, IdleHaveNoLines
<1>4. ActiveProducts \subseteq Products \X ColumnValues \X ColumnValues
  <2>1. \A q \in Available : q \in Products /\ catalog[q] \in Product
    BY <1>2 DEF Available, TypeOK
  <2> QED
    BY <2>1 DEF ActiveProducts, Product
<1>5. /\ req'[r] = [pc |-> "resolving", lines |-> <<>>, totals |-> req[r].totals]
      /\ \A s \in Requests \ {r} : req'[s] = req[s]
      /\ DOMAIN req' = Requests
  <2>1. req[r] = [pc |-> "idle", lines |-> <<>>, totals |-> req[r].totals]
    BY <1>1, <1>2, <1>3 DEF TypeOK
  <2>2. req'[r] = [req[r] EXCEPT !.pc = "resolving"]
    BY <1>1, <1>2 DEF TypeOK
  <2> QED
    BY <1>1, <1>2, <2>1, <2>2 DEF TypeOK
<1>6. TypeOK'
  <2>1. \A s \in Requests :
          /\ req'[s] = [pc |-> req'[s].pc, lines |-> req'[s].lines,
                        totals |-> req'[s].totals]
          /\ req'[s].pc \in {"idle", "resolving", "saved", "refused"}
          /\ req'[s].lines \in Seq(Line)
          /\ Len(req'[s].lines) <= MaxLines
    BY <1>2, <1>3, <1>5 DEF TypeOK
  <2>2. shown' \in [Requests -> SUBSET (Products \X ColumnValues \X ColumnValues)]
    BY <1>1, <1>2, <1>4 DEF TypeOK
  <2> QED
    BY <1>1, <1>2, <1>5, <2>1, <2>2 DEF TypeOK
<1>7. ActiveProducts' = ActiveProducts
  BY <1>1 DEF ActiveProducts, Available
<1>8. shown'[r] = ActiveProducts /\ \A s \in Requests \ {r} : shown'[s] = shown[s]
  BY <1>1, <1>2 DEF TypeOK
<1>9. ResolvingSeeCatalog'
  BY <1>5, <1>7, <1>8 DEF CalculatorInv, ResolvingSeeCatalog
<1>10. LinesAreCalculated' /\ IdleHaveNoLines'
  BY <1>5 DEF CalculatorInv, LinesAreCalculated, IdleHaveNoLines
<1>11. ProductLinesUseCatalog'
  BY <1>2, <1>5, <1>8 DEF ProductLinesUseCatalog, Range
<1> QED  BY <1>6, <1>9, <1>10, <1>11 DEF CalculatorInv

(* A refused line stores nothing and keeps the invariant.                  *)
LEMMA RefuseStep ==
  ASSUME CalculatorInv, NEW r \in Requests, NEW input \in LineInput,
         req[r].pc = "resolving",
         RefuseLine(r, input), UNCHANGED <<catalog, shown>>
  PROVE  CalculatorInv'
<1>1. req' = [req EXCEPT ![r].pc = "refused", ![r].lines = <<>>]
      /\ catalog' = catalog /\ shown' = shown
  BY DEF RefuseLine
<1>2. TypeOK
  BY DEF CalculatorInv
<1>3. /\ req'[r] = [pc |-> "refused", lines |-> <<>>, totals |-> req[r].totals]
      /\ \A s \in Requests \ {r} : req'[s] = req[s]
      /\ DOMAIN req' = Requests
  <2>1. req[r] = [pc |-> "resolving", lines |-> req[r].lines,
                  totals |-> req[r].totals]
    BY <1>2 DEF TypeOK
  <2>2. req'[r] = [req[r] EXCEPT !.pc = "refused", !.lines = <<>>]
    BY <1>1, <1>2 DEF TypeOK
  <2> QED
    BY <1>1, <1>2, <2>1, <2>2 DEF TypeOK
<1>4. TypeOK'
  <2>1. 0 <= MaxLines
    BY InputsAreNumbers
  <2>2. \A s \in Requests :
          /\ req'[s] = [pc |-> req'[s].pc, lines |-> req'[s].lines,
                        totals |-> req'[s].totals]
          /\ req'[s].pc \in {"idle", "resolving", "saved", "refused"}
          /\ req'[s].lines \in Seq(Line)
          /\ Len(req'[s].lines) <= MaxLines
    <3>1. <<>> \in Seq(Line) /\ Len(<<>>) <= MaxLines
      BY <2>1
    <3>2. \A s \in Requests \ {r} :
            /\ req'[s] = [pc |-> req'[s].pc, lines |-> req'[s].lines,
                          totals |-> req'[s].totals]
            /\ req'[s].pc \in {"idle", "resolving", "saved", "refused"}
            /\ req'[s].lines \in Seq(Line)
            /\ Len(req'[s].lines) <= MaxLines
      BY <1>2, <1>3 DEF TypeOK
    <3>3. /\ req'[r].pc = "refused" /\ req'[r].lines = <<>>
          /\ req'[r] = [pc |-> req'[r].pc, lines |-> req'[r].lines,
                        totals |-> req'[r].totals]
      BY <1>3
    <3>4. req'[r].lines \in Seq(Line) /\ Len(req'[r].lines) <= MaxLines
      BY <3>1, <3>3
    <3> QED
      BY <3>2, <3>3, <3>4
  <2> QED
    BY <1>1, <1>2, <1>3, <2>2 DEF TypeOK
<1>5. ActiveProducts' = ActiveProducts
  BY <1>1 DEF ActiveProducts, Available
<1>6. ResolvingSeeCatalog'
  BY <1>1, <1>3, <1>5 DEF CalculatorInv, ResolvingSeeCatalog
<1>7. LinesAreCalculated' /\ IdleHaveNoLines'
  BY <1>3 DEF CalculatorInv, LinesAreCalculated, IdleHaveNoLines
<1>8. ProductLinesUseCatalog'
  BY <1>1, <1>3 DEF CalculatorInv, ProductLinesUseCatalog, Range
<1> QED  BY <1>4, <1>6, <1>7, <1>8 DEF CalculatorInv

(* The columns leave what came from the catalogue as it is.                *)
LEMMA SaveStep ==
  ASSUME CalculatorInv, NEW r \in Requests, SaveDocument(r)
  PROVE  CalculatorInv'
<1> DEFINE stored == [i \in DOMAIN req[r].lines |-> Stored(req[r].lines[i])]
           totals == SumLines(req[r].lines)
<1>1. /\ req' = [req EXCEPT ![r] = [pc |-> "saved", totals |-> totals,
                                    lines |-> stored]]
      /\ catalog' = catalog /\ shown' = shown
  BY DEF SaveDocument
<1>2. TypeOK
  BY DEF CalculatorInv
<1>3. ASSUME NEW i \in DOMAIN req[r].lines
      PROVE  /\ stored[i] \in Line
             /\ stored[i].product # None =>
                  <<stored[i].product, stored[i].price, stored[i].rate>>
                    \in shown[r]
  <2>1. req[r].lines[i] \in Line
    BY <1>2 DEF TypeOK
  <2>2. PICK line \in Line : line = req[r].lines[i]
    BY <2>1
  <2>3. /\ line.quantity \in Int /\ line.price \in Int /\ line.rate \in Int
        /\ line = [product |-> line.product, quantity |-> line.quantity,
                   price |-> line.price, rate |-> line.rate,
                   amounts |-> line.amounts]
    BY DEF Line
  <2>4. stored[i] = [product |-> line.product, quantity |-> Column(line.quantity),
                     price |-> Column(line.price), rate |-> Column(line.rate),
                     amounts |-> line.amounts]
    BY <2>2, <2>3 DEF Stored
  <2>5. stored[i] \in Line
    <3>1. Column(line.quantity) \in Int /\ Column(line.price) \in Int
            /\ Column(line.rate) \in Int
      BY <2>3, ColumnFits DEF ColumnValues
    <3> QED
      BY <2>4, <3>1 DEF Line
  <2>6. ASSUME line.product # None
        PROVE  <<line.product, Column(line.price), Column(line.rate)>> \in shown[r]
    <3>1. <<line.product, line.price, line.rate>> \in shown[r]
      BY <2>2, <2>6 DEF CalculatorInv, ProductLinesUseCatalog, Range
    <3>2. shown[r] \subseteq Products \X ColumnValues \X ColumnValues
      BY <1>2 DEF TypeOK
    <3>3. line.price \in ColumnValues /\ line.rate \in ColumnValues
      BY <3>1, <3>2
    <3>4. Column(line.price) = line.price /\ Column(line.rate) = line.rate
      BY <2>3, <3>3, ColumnFits
    <3> QED
      BY <3>1, <3>4
  <2> QED
    BY <2>4, <2>5, <2>6
<1>4. /\ stored \in Seq(Line)
      /\ Len(stored) = Len(req[r].lines)
      /\ DOMAIN stored = DOMAIN req[r].lines
  <2>1. Len(req[r].lines) \in Nat /\ DOMAIN req[r].lines = 1 .. Len(req[r].lines)
    BY <1>2 DEF TypeOK
  <2> HIDE DEF totals
  <2>2. stored \in [1 .. Len(req[r].lines) -> Line]
    BY <1>3, <2>1
  <2> QED
    BY <2>1, <2>2
<1> HIDE DEF stored, totals
<1>5. /\ req'[r] = [pc |-> "saved", totals |-> totals, lines |-> stored]
      /\ \A s \in Requests \ {r} : req'[s] = req[s]
      /\ DOMAIN req' = Requests
  BY <1>1, <1>2 DEF TypeOK
<1>6. TypeOK'
  <2>1. \A s \in Requests :
          /\ req'[s] = [pc |-> req'[s].pc, lines |-> req'[s].lines,
                        totals |-> req'[s].totals]
          /\ req'[s].pc \in {"idle", "resolving", "saved", "refused"}
    BY <1>2, <1>5 DEF TypeOK
  <2>2. \A s \in Requests :
          /\ req'[s].lines \in Seq(Line)
          /\ Len(req'[s].lines) <= MaxLines
    <3>1. /\ req'[r].lines = stored
          /\ req[r].lines \in Seq(Line) /\ Len(req[r].lines) <= MaxLines
      BY <1>2, <1>5 DEF TypeOK
    <3>2. \A s \in Requests \ {r} :
            req'[s].lines \in Seq(Line) /\ Len(req'[s].lines) <= MaxLines
      BY <1>2, <1>5 DEF TypeOK
    <3> QED
      BY <1>4, <3>1, <3>2
  <2> QED
    BY <1>1, <1>2, <1>5, <2>1, <2>2 DEF TypeOK
<1>7. ActiveProducts' = ActiveProducts
  BY <1>1 DEF ActiveProducts, Available
<1>8. ResolvingSeeCatalog'
  BY <1>1, <1>5, <1>7 DEF CalculatorInv, ResolvingSeeCatalog
<1>9. LinesAreCalculated' /\ IdleHaveNoLines'
  BY <1>5 DEF CalculatorInv, LinesAreCalculated, IdleHaveNoLines
<1>10. ProductLinesUseCatalog'
  <2>1. ASSUME NEW line \in Range(req'[r].lines), line.product # None
        PROVE  <<line.product, line.price, line.rate>> \in shown'[r]
    <3>1. PICK i \in DOMAIN req[r].lines : line = stored[i]
      BY <1>4, <1>5 DEF Range
    <3> QED
      BY <1>1, <1>3, <2>1, <3>1
  <2> QED
    BY <1>1, <1>5, <2>1 DEF CalculatorInv, ProductLinesUseCatalog
<1> QED  BY <1>6, <1>8, <1>9, <1>10 DEF CalculatorInv

-----------------------------------------------------------------------------
(* Before any request the invariant holds.                                 *)
LEMMA CalculatorInit == Init => CalculatorInv
<1> SUFFICES ASSUME Init
             PROVE  CalculatorInv
  OBVIOUS
<1>1. \A r \in Requests :
        req[r] = [pc |-> "idle", lines |-> <<>>, totals |-> None]
  BY DEF Init
<1>2. <<>> \in Seq(Line) /\ Len(<<>>) <= MaxLines
  BY InputsAreNumbers
<1>3. TypeOK
  <2>1. DOMAIN req = Requests
    BY DEF Init
  <2>2. \A r \in Requests :
          /\ req[r] = [pc |-> req[r].pc, lines |-> req[r].lines,
                       totals |-> req[r].totals]
          /\ req[r].pc \in {"idle", "resolving", "saved", "refused"}
          /\ req[r].lines \in Seq(Line)
          /\ Len(req[r].lines) <= MaxLines
    <3>1. \A r \in Requests :
            req[r].pc = "idle" /\ req[r].lines = <<>> /\ req[r].totals = None
      BY <1>1
    <3> QED
      BY <1>1, <1>2, <3>1
  <2> QED
    BY <2>1, <2>2 DEF Init, TypeOK
<1>4. ProductLinesUseCatalog
  BY <1>1 DEF ProductLinesUseCatalog, Range
<1> QED
  BY <1>1, <1>3, <1>4
     DEF CalculatorInv, ResolvingSeeCatalog, LinesAreCalculated, IdleHaveNoLines

(* Every request and every change of the catalogue keeps it.               *)
LEMMA CalculatorStep == CalculatorInv /\ [Next]_vars => CalculatorInv'
<1> SUFFICES ASSUME CalculatorInv, [Next]_vars
             PROVE  CalculatorInv'
  OBVIOUS
<1>1. ASSUME NEW p \in Products, NEW price \in Prices, NEW rate \in Rates,
             CreateProduct(p, price, rate)
      PROVE  CalculatorInv'
  <2>1. [price |-> Column(price), rate |-> Column(rate), active |-> TRUE]
          \in Product
    BY InputsAreNumbers, ColumnFits DEF Product
  <2> QED
    BY <1>1, <2>1, CatalogStep DEF CreateProduct
<1>2. ASSUME NEW p \in Products, NEW price \in Prices, NEW rate \in Rates,
             NEW active \in BOOLEAN, UpdateProduct(p, price, rate, active)
      PROVE  CalculatorInv'
  <2>1. [price |-> Column(price), rate |-> Column(rate), active |-> active]
          \in Product
    BY InputsAreNumbers, ColumnFits DEF Product
  <2> QED
    BY <1>2, <2>1, CatalogStep DEF UpdateProduct
<1>3. ASSUME NEW p \in Products, DeleteProduct(p)
      PROVE  CalculatorInv'
  <2>1. catalog[p] \in Product
    BY <1>3 DEF DeleteProduct, CalculatorInv, TypeOK
  <2>2. [catalog[p] EXCEPT !.active = FALSE] \in Product
    BY <2>1 DEF Product
  <2> QED
    BY <1>3, <2>2, CatalogStep DEF DeleteProduct
<1>4. ASSUME NEW r \in Requests, ResolveLine(r)
      PROVE  CalculatorInv'
  <2>1. /\ req[r].pc = "resolving" /\ Len(req[r].lines) < MaxLines
        /\ UNCHANGED <<catalog, shown>>
    BY <1>4 DEF ResolveLine
  <2>2. PICK input \in LineInput : \/ ResolveProductLine(r, input)
                                   \/ ResolveFreeLine(r, input)
                                   \/ RefuseLine(r, input)
    BY <1>4 DEF ResolveLine
  <2>3. CASE ResolveProductLine(r, input)
    <3>1. /\ input.product \in Available
          /\ AddLine(r, input, catalog[input.product])
      BY <2>3 DEF ResolveProductLine
    <3>2. catalog[input.product] \in Product
      BY <3>1 DEF Available, CalculatorInv, TypeOK
    <3>3. /\ catalog[input.product].price \in Int
          /\ catalog[input.product].rate \in Int
      BY <3>2 DEF Product, ColumnValues
    <3>4. <<input.product, catalog[input.product].price,
            catalog[input.product].rate>> \in shown[r]
      BY <2>1, <3>1 DEF CalculatorInv, ResolvingSeeCatalog, ActiveProducts
    <3> QED
      BY <2>1, <3>1, <3>3, <3>4, AddLineStep
  <2>4. CASE ResolveFreeLine(r, input)
    <3>1. /\ input.product = None /\ input.price # None /\ input.rate # None
          /\ AddLine(r, input, input)
      BY <2>4 DEF ResolveFreeLine
    <3>2. input.price \in Prices /\ input.rate \in Rates
      BY <3>1 DEF LineInput
    <3>3. input.price \in Int /\ input.rate \in Int
      BY <3>2, InputsAreNumbers
    <3> QED
      BY <2>1, <3>1, <3>3, AddLineStep
  <2>5. CASE RefuseLine(r, input)
    BY <2>1, <2>5, RefuseStep
  <2> QED
    BY <2>2, <2>3, <2>4, <2>5
<1>5. CASE UNCHANGED vars
  BY <1>5
     DEF vars, CalculatorInv, TypeOK, ResolvingSeeCatalog, ActiveProducts,
         Available, LinesAreCalculated, IdleHaveNoLines, ProductLinesUseCatalog
<1> QED
  BY <1>1, <1>2, <1>3, <1>4, <1>5, BeginStep, SaveStep DEF Next

-----------------------------------------------------------------------------
(* CalculatorInv is an inductive invariant of the calculator beside the    *)
(* catalogue.                                                              *)
THEOREM CalculatorInvariant == Spec => []CalculatorInv
  BY CalculatorInit, CalculatorStep, PTL DEF Spec

(* Whatever line a request resolves, for whatever quantity, price and      *)
(* rate, calculate_line has rounded its base and its tax to the nearest    *)
(* cent, ties to even.                                                     *)
THEOREM LinesRoundToNearest == Spec => []AmountsAreNearest
<1>1. CalculatorInv => AmountsAreNearest
  <2> SUFFICES ASSUME CalculatorInv, NEW r \in Requests, req[r].pc = "resolving",
                      NEW i \in DOMAIN req[r].lines
               PROVE  AreNearest(req[r].lines[i].amounts,
                                 req[r].lines[i].quantity,
                                 req[r].lines[i].price, req[r].lines[i].rate)
    BY DEF AmountsAreNearest, LinesAt, Range
  <2>1. req[r].lines[i] \in Line
    BY DEF CalculatorInv, TypeOK
  <2>2. req[r].lines[i].amounts =
          CalculateLine(req[r].lines[i].quantity, req[r].lines[i].price,
                        req[r].lines[i].rate)
    BY DEF CalculatorInv, LinesAreCalculated
  <2>3. /\ req[r].lines[i].quantity \in Int /\ req[r].lines[i].price \in Int
        /\ req[r].lines[i].rate \in Int
    BY <2>1 DEF Line
  <2>4. AreNearest(CalculateLine(req[r].lines[i].quantity,
                                 req[r].lines[i].price, req[r].lines[i].rate),
                   req[r].lines[i].quantity, req[r].lines[i].price,
                   req[r].lines[i].rate)
    BY <2>3, CalculatedAmounts
  <2> QED
    BY <2>2, <2>4
<1> QED  BY <1>1, CalculatorInvariant, PTL

(* Every line of a product has a price and a rate at which the product was *)
(* on sale while the request was served.                                   *)
THEOREM ProductLinesFromCatalog == Spec => []ProductLinesUseCatalog
<1>1. CalculatorInv => ProductLinesUseCatalog
  BY DEF CalculatorInv
<1> QED  BY <1>1, CalculatorInvariant, PTL

(* The variables keep their types.                                         *)
THEOREM CalculatorTypes == Spec => []TypeOK
<1>1. CalculatorInv => TypeOK
  BY DEF CalculatorInv
<1> QED  BY <1>1, CalculatorInvariant, PTL

-----------------------------------------------------------------------------
(* Recomputing the amounts of a stored line *)

(* The rates a line is resolved with: one that was given or a product's    *)
ResolvedRates == Rates \cup ColumnValues

(* The total of a line is its base plus its tax, and the tax is computed   *)
(* from a rate that is stored as rate.                                     *)
WasTaxed(amounts, rate) ==
  /\ amounts.total = amounts.subtotal + amounts.tax
  /\ \E given \in ResolvedRates :
       rate = Column(given)
         /\ IsNearest(amounts.tax, amounts.subtotal * given, 100000)

(* A line's amounts come from a quantity that was given and, if it has a   *)
(* product, from the price and the rate that are stored; the totals of a   *)
(* document are those of its lines.                                        *)
LinesWereGiven(r) ==
  /\ req[r].pc = "resolving" =>
       \A i \in DOMAIN req[r].lines :
         /\ req[r].lines[i].quantity \in Quantities
         /\ req[r].lines[i].rate \in ResolvedRates
  /\ req[r].pc = "saved" =>
       /\ req[r].totals = SumLines(req[r].lines)
       /\ \A i \in DOMAIN req[r].lines :
            WasTaxed(req[r].lines[i].amounts, req[r].lines[i].rate)
  /\ req[r].pc = "saved" =>
       \A i \in DOMAIN req[r].lines :
         req[r].lines[i].product # None =>
           \E q \in Quantities :
             /\ req[r].lines[i].quantity = Column(q)
             /\ req[r].lines[i].amounts =
                  CalculateLine(q, req[r].lines[i].price, req[r].lines[i].rate)

(* A request that takes a line takes a given quantity and a rate that was  *)
(* given or comes from the catalogue.                                      *)
LEMMA GivenLineStep ==
  ASSUME CalculatorInv, NEW r \in Requests, LinesWereGiven(r),
         req[r].pc = "resolving",
         NEW input \in LineInput, NEW priced, priced.rate \in ResolvedRates,
         AddLine(r, input, priced)
  PROVE  LinesWereGiven(r)'
<1>1. PICK new :
        new = [product |-> input.product, quantity |-> input.quantity,
               price |-> priced.price, rate |-> priced.rate,
               amounts |-> CalculateLine(input.quantity, priced.price,
                                         priced.rate)]
  OBVIOUS
<1>2. new.quantity \in Quantities /\ new.rate \in ResolvedRates
  BY <1>1 DEF LineInput
<1>3. req' = [req EXCEPT ![r].lines = Append(req[r].lines, new)]
  BY <1>1 DEF AddLine
<1>4. /\ DOMAIN req = Requests
      /\ req[r] = [pc |-> "resolving", lines |-> req[r].lines,
                   totals |-> req[r].totals]
      /\ req[r].lines \in Seq(Line)
  BY DEF CalculatorInv, TypeOK
<1>5. req'[r].pc = "resolving" /\ req'[r].lines = Append(req[r].lines, new)
  <2>1. req'[r] = [req[r] EXCEPT !.lines = Append(req[r].lines, new)]
    BY <1>3, <1>4
  <2> QED
    BY <1>4, <2>1
<1>6. /\ DOMAIN req[r].lines = 1 .. Len(req[r].lines)
      /\ Len(req[r].lines) \in Nat
      /\ DOMAIN Append(req[r].lines, new) = 1 .. Len(req[r].lines) + 1
      /\ \A i \in 1 .. Len(req[r].lines) :
           Append(req[r].lines, new)[i] = req[r].lines[i]
      /\ Append(req[r].lines, new)[Len(req[r].lines) + 1] = new
  BY <1>4
<1>7. ASSUME NEW i \in DOMAIN Append(req[r].lines, new)
      PROVE  /\ Append(req[r].lines, new)[i].quantity \in Quantities
             /\ Append(req[r].lines, new)[i].rate \in ResolvedRates
  <2>1. i \in 1 .. Len(req[r].lines) \/ i = Len(req[r].lines) + 1
    BY <1>6
  <2> QED
    BY <1>2, <1>6, <2>1 DEF LinesWereGiven
<1> QED
  BY <1>5, <1>7 DEF LinesWereGiven

(* The columns leave the price and the rate of a product as they are.      *)
LEMMA GivenSaveStep ==
  ASSUME CalculatorInv, NEW r \in Requests, LinesWereGiven(r),
         SaveDocument(r)
  PROVE  LinesWereGiven(r)'
<1> DEFINE stored == [i \in DOMAIN req[r].lines |-> Stored(req[r].lines[i])]
           totals == SumLines(req[r].lines)
<1>1. /\ req[r].pc = "resolving"
      /\ req' = [req EXCEPT ![r] = [pc |-> "saved", totals |-> totals,
                                    lines |-> stored]]
      /\ DOMAIN req = Requests
  BY DEF SaveDocument, CalculatorInv, TypeOK
<1>2. ASSUME NEW i \in DOMAIN stored, stored[i].product # None
      PROVE  \E q \in Quantities :
               /\ stored[i].quantity = Column(q)
               /\ stored[i].amounts =
                    CalculateLine(q, stored[i].price, stored[i].rate)
  <2>1. i \in DOMAIN req[r].lines /\ req[r].lines[i] \in Line
    BY DEF CalculatorInv, TypeOK
  <2>2. PICK line \in Line : line = req[r].lines[i]
    BY <2>1
  <2>3. /\ stored[i].product = line.product
        /\ stored[i].quantity = Column(line.quantity)
        /\ stored[i].price = Column(line.price)
        /\ stored[i].rate = Column(line.rate)
        /\ stored[i].amounts = line.amounts
    BY <2>1, <2>2 DEF Stored, Line
  <2>4. line.quantity \in Quantities
    BY <1>1, <2>1, <2>2 DEF LinesWereGiven
  <2>5. line.amounts = CalculateLine(line.quantity, line.price, line.rate)
    BY <1>1, <2>1, <2>2 DEF CalculatorInv, LinesAreCalculated
  <2>6. Column(line.price) = line.price /\ Column(line.rate) = line.rate
    <3>1. <<line.product, line.price, line.rate>> \in shown[r]
      BY <1>2, <2>1, <2>2, <2>3 DEF CalculatorInv, ProductLinesUseCatalog, Range
    <3>2. shown[r] \subseteq Products \X ColumnValues \X ColumnValues
      BY DEF CalculatorInv, TypeOK
    <3>3. line.price \in ColumnValues /\ line.rate \in ColumnValues
      BY <3>1, <3>2
    <3>4. line.price \in Int /\ line.rate \in Int
      BY DEF Line
    <3> QED
      BY <3>3, <3>4, ColumnFits
  <2> HIDE DEF stored
  <2> QED
    BY <2>3, <2>4, <2>5, <2>6
<1>3. ASSUME NEW i \in DOMAIN stored
      PROVE  /\ stored[i].amounts = req[r].lines[i].amounts
             /\ WasTaxed(stored[i].amounts, stored[i].rate)
  <2>1. i \in DOMAIN req[r].lines /\ req[r].lines[i] \in Line
    BY DEF CalculatorInv, TypeOK
  <2>2. PICK line \in Line : line = req[r].lines[i]
    BY <2>1
  <2>3. stored[i].rate = Column(line.rate) /\ stored[i].amounts = line.amounts
    BY <2>1, <2>2 DEF Stored, Line
  <2>4. line.rate \in ResolvedRates
    BY <1>1, <2>1, <2>2 DEF LinesWereGiven
  <2>5. line.amounts = CalculateLine(line.quantity, line.price, line.rate)
    BY <1>1, <2>1, <2>2 DEF CalculatorInv, LinesAreCalculated
  <2>6. line.quantity \in Int /\ line.price \in Int /\ line.rate \in Int
    BY DEF Line
  <2>7. IsNearest(line.amounts.tax, line.amounts.subtotal * line.rate, 100000)
    BY <2>5, <2>6, CalculatedAmounts DEF AreNearest
  <2>8. line.amounts.total = line.amounts.subtotal + line.amounts.tax
    BY <2>5 DEF CalculateLine, Amounts
  <2> HIDE DEF stored
  <2> QED
    BY <2>2, <2>3, <2>4, <2>7, <2>8 DEF WasTaxed
<1>4. totals = SumLines(stored)
  <2>1. DOMAIN stored = DOMAIN req[r].lines
    OBVIOUS
  <2> HIDE DEF stored
  <2>2. \A a :
          [i \in DOMAIN stored |-> stored[i].amounts[a]]
            = [i \in DOMAIN req[r].lines |-> req[r].lines[i].amounts[a]]
    BY <1>3, <2>1
  <2>3. \A a : SumOf(stored, a) = SumOf(req[r].lines, a)
    BY <2>2 DEF SumOf
  <2> QED
    BY <2>3 DEF SumLines
<1> HIDE DEF stored, totals
<1>5. req'[r] = [pc |-> "saved", totals |-> totals, lines |-> stored]
  BY <1>1
<1>6. /\ req'[r].pc = "saved" /\ req'[r].lines = stored
      /\ req'[r].totals = SumLines(stored)
  BY <1>4, <1>5
<1> QED
  BY <1>2, <1>3, <1>6 DEF LinesWereGiven

(* Every step leaves a request as it is, or is one of these.               *)
LEMMA GivenStep ==
  ASSUME CalculatorInv, NEW r \in Requests, LinesWereGiven(r),
         [Next]_vars
  PROVE  LinesWereGiven(r)'
<1>1. DOMAIN req = Requests /\ req[r].lines \in Seq(Line)
  BY DEF CalculatorInv, TypeOK
<1>2. CASE req'[r] = req[r]
  BY <1>2 DEF LinesWereGiven
<1>3. CASE Begin(r)
  <2>1. req[r] = [pc |-> "idle", lines |-> <<>>, totals |-> req[r].totals]
    BY <1>3 DEF Begin, CalculatorInv, TypeOK, IdleHaveNoLines
  <2>2. req'[r] = [req[r] EXCEPT !.pc = "resolving"]
    BY <1>1, <1>3 DEF Begin
  <2> QED
    BY <2>1, <2>2 DEF LinesWereGiven
<1>4. CASE ResolveLine(r)
  <2>1. PICK input \in LineInput :
          \/ ResolveProductLine(r, input)
          \/ ResolveFreeLine(r, input)
          \/ RefuseLine(r, input)
    BY <1>4 DEF ResolveLine
  <2>2. CASE RefuseLine(r, input)
    <3>1. req'[r] = [req[r] EXCEPT !.pc = "refused", !.lines = <<>>]
      BY <1>1, <2>2 DEF RefuseLine
    <3>2. req[r] = [pc |-> req[r].pc, lines |-> req[r].lines,
                    totals |-> req[r].totals]
      BY DEF CalculatorInv, TypeOK
    <3>3. req'[r].pc = "refused"
      BY <3>1, <3>2
    <3> QED
      BY <3>3 DEF LinesWereGiven
  <2>3. CASE ResolveProductLine(r, input) \/ ResolveFreeLine(r, input)
    <3>1. PICK priced : AddLine(r, input, priced)
                          /\ priced.rate \in ResolvedRates
      <4>1. CASE ResolveProductLine(r, input)
        <5>1. input.product \in Available
                /\ AddLine(r, input, catalog[input.product])
          BY <4>1 DEF ResolveProductLine
        <5>2. catalog[input.product] \in Product
          BY <5>1 DEF Available, CalculatorInv, TypeOK
        <5> QED
          BY <5>1, <5>2 DEF Product, ResolvedRates
      <4>2. CASE ResolveFreeLine(r, input)
        BY <4>2 DEF ResolveFreeLine, LineInput, ResolvedRates
      <4> QED
        BY <2>3, <4>1, <4>2
    <3> QED
      BY <1>4, <3>1, GivenLineStep DEF ResolveLine
  <2> QED
    BY <2>1, <2>2, <2>3
<1>5. CASE SaveDocument(r)
  BY <1>5, GivenSaveStep
<1>6. CASE /\ ~Begin(r) /\ ~ResolveLine(r) /\ ~SaveDocument(r)
           /\ req'[r] # req[r]
  <2>1. req' # req
    BY <1>6
  <2>2. PICK s \in Requests : Begin(s) \/ ResolveLine(s) \/ SaveDocument(s)
    BY <2>1 DEF Next, vars, CreateProduct, UpdateProduct, DeleteProduct,
                SetProduct
  <2>3. s # r
    BY <1>6, <2>2
  <2>4. req'[r] = req[r]
    BY <1>1, <2>2, <2>3
    DEF Begin, ResolveLine, ResolveProductLine, ResolveFreeLine, AddLine,
        RefuseLine, SaveDocument
  <2> QED
    BY <1>6, <2>4
<1> QED
  BY <1>2, <1>3, <1>4, <1>5, <1>6

(* Every request has resolved its lines from what was given.               *)
THEOREM LinesGiven == Spec => [](\A r \in Requests : LinesWereGiven(r))
<1> DEFINE Given == \A r \in Requests : LinesWereGiven(r)
<1>1. Init => Given
  BY DEF Init, LinesWereGiven
<1>2. CalculatorInv /\ Given /\ [Next]_vars => Given'
  BY GivenStep
<1> HIDE DEF Given
<1>3. Spec => []Given
  BY <1>1, <1>2, CalculatorInvariant, PTL DEF Spec
<1> QED
  BY <1>3 DEF Given

(* The amounts of a stored line of a product are those of its columns when *)
(* its quantity was given as it is stored.                                 *)
THEOREM ProductLinesRecomputable == Spec => []ProductLinesRecompute
<1> DEFINE Given == \A r \in Requests : LinesWereGiven(r)
<1>1. Given => ProductLinesRecompute
  <2> SUFFICES ASSUME Given, NEW r \in Requests, req[r].pc = "saved",
                      NEW i \in DOMAIN req[r].lines,
                      req[r].lines[i].product # None,
                      WasKept(req[r].lines[i].quantity, Quantities)
               PROVE  req[r].lines[i].amounts =
                        CalculateLine(req[r].lines[i].quantity,
                                      req[r].lines[i].price,
                                      req[r].lines[i].rate)
    BY DEF ProductLinesRecompute, LinesAt, Range
  <2>1. PICK q \in Quantities :
          /\ req[r].lines[i].quantity = Column(q)
          /\ req[r].lines[i].amounts =
               CalculateLine(q, req[r].lines[i].price, req[r].lines[i].rate)
    BY DEF LinesWereGiven
  <2>2. q = req[r].lines[i].quantity
    BY <2>1 DEF WasKept
  <2> QED
    BY <2>1, <2>2
<1>2. Spec => []Given
  BY LinesGiven
<1> HIDE DEF Given
<1> QED
  BY <1>1, <1>2, PTL

-----------------------------------------------------------------------------
(* The totals of a document *)

(* What is summed up for one amount of the lines of a document             *)
Terms(r, a) == [i \in DOMAIN req[r].lines |-> req[r].lines[i].amounts[a]]

(* The totals of a saved document are sums of integers over its lines.     *)
LEMMA SavedTotals ==
  ASSUME CalculatorInv, NEW r \in Requests, LinesWereGiven(r),
         req[r].pc = "saved"
  PROVE  /\ IsFiniteSet(DOMAIN req[r].lines)
         /\ Cardinality(DOMAIN req[r].lines) = Len(req[r].lines)
         /\ \A a \in {"subtotal", "tax", "total"} :
              /\ Terms(r, a) \in [DOMAIN req[r].lines -> Int]
              /\ req[r].totals[a] = SumFunction(Terms(r, a))
<1>1. req[r].lines \in Seq(Line)
  BY DEF CalculatorInv, TypeOK
<1>2. Len(req[r].lines) \in Nat
        /\ DOMAIN req[r].lines = 1 .. Len(req[r].lines)
  BY <1>1
<1>3. IsFiniteSet(DOMAIN req[r].lines)
        /\ Cardinality(DOMAIN req[r].lines) = Len(req[r].lines)
  BY <1>2, FS_Interval
<1>4. ASSUME NEW a \in {"subtotal", "tax", "total"}
      PROVE  /\ Terms(r, a) \in [DOMAIN req[r].lines -> Int]
             /\ req[r].totals[a] = SumFunction(Terms(r, a))
  <2>1. ASSUME NEW i \in DOMAIN req[r].lines
        PROVE  req[r].lines[i].amounts[a] \in Int
    <3>1. PICK line \in Line : line = req[r].lines[i]
      BY <1>1
    <3>2. line.amounts \in [subtotal : Int, tax : Int, total : Int]
      BY DEF Line
    <3>3. line.amounts[a] \in Int
      BY <3>2
    <3> QED
      BY <3>1, <3>3
  <2>2. req[r].totals[a] = SumOf(req[r].lines, a)
    BY DEF LinesWereGiven, SumLines
  <2> QED
    BY <2>1, <2>2 DEF SumOf, Terms
<1> QED
  BY <1>3, <1>4

(* The total of a document is its base plus its tax, whatever its lines:   *)
(* nothing is rounded after the lines were.                                *)
THEOREM TotalsAddUp == Spec => []TotalIsBasePlusTax
<1> DEFINE Given == \A r \in Requests : LinesWereGiven(r)
<1>1. CalculatorInv /\ Given => TotalIsBasePlusTax
  <2> SUFFICES ASSUME CalculatorInv, NEW r \in Requests, LinesWereGiven(r),
                      req[r].pc = "saved"
               PROVE  req[r].totals.total
                        = req[r].totals.subtotal + req[r].totals.tax
    BY DEF TotalIsBasePlusTax
  <2> DEFINE lines    == DOMAIN req[r].lines
             subtotal == Terms(r, "subtotal")
             tax      == Terms(r, "tax")
  <2>1. Terms(r, "total") = [i \in lines |-> subtotal[i] + tax[i]]
    BY DEF Terms, LinesWereGiven, WasTaxed
  <2>2. /\ IsFiniteSet(lines)
        /\ subtotal \in [lines -> Int] /\ tax \in [lines -> Int]
        /\ req[r].totals.subtotal = SumFunction(subtotal)
        /\ req[r].totals.tax = SumFunction(tax)
        /\ req[r].totals.total = SumFunction(Terms(r, "total"))
    BY SavedTotals
  <2> HIDE DEF lines, subtotal, tax
  <2> QED
    BY <2>1, <2>2, SumAdds
<1>2. Spec => []Given
  BY LinesGiven
<1> HIDE DEF Given
<1> QED
  BY <1>1, <1>2, CalculatorInvariant, PTL

(* A line whose rate was kept by its column was taxed with that rate.      *)
LEMMA TaxedAtKeptRate ==
  ASSUME NEW amounts, amounts.subtotal \in Int, amounts.tax \in Int,
         NEW rate \in Rates, WasKept(rate, Rates), WasTaxed(amounts, rate)
  PROVE  /\ -50000 <= amounts.tax * 100000 + amounts.subtotal * (-rate)
         /\ amounts.tax * 100000 + amounts.subtotal * (-rate) <= 50000
<1>1. PICK given \in ResolvedRates :
        /\ rate = Column(given)
        /\ IsNearest(amounts.tax, amounts.subtotal * given, 100000)
  BY DEF WasTaxed
<1>2. given = rate
  <2>1. CASE given \in Rates
    BY <1>1, <2>1 DEF WasKept
  <2>2. CASE given \in ColumnValues
    BY <1>1, <2>2, ColumnFits DEF ColumnValues
  <2> QED
    BY <2>1, <2>2 DEF ResolvedRates
<1>3. rate \in Int
  BY InputsAreNumbers
<1>4. PICK base \in Int : base = amounts.subtotal * rate
  BY <1>3
<1>5. amounts.subtotal * (-rate) = -base
  BY <1>3, <1>4
<1>6. IsNearest(amounts.tax, base, 100000)
  BY <1>1, <1>2, <1>4
<1>7. -50000 <= amounts.tax * 100000 - base
        /\ amounts.tax * 100000 - base <= 50000
  BY <1>6 DEF IsNearest, Abs
<1> QED
  BY <1>5, <1>7

(* The tax of a document with one rate differs from the rate of its base   *)
(* by at most half a cent per line, however many lines it has.             *)
THEOREM TaxDriftBounded == Spec => []TaxDriftIsBounded
<1> DEFINE Given == \A r \in Requests : LinesWereGiven(r)
<1>1. CalculatorInv /\ Given => TaxDriftIsBounded
  <2> SUFFICES ASSUME CalculatorInv, NEW r \in Requests, LinesWereGiven(r),
                      req[r].pc = "saved", NEW rate \in Rates,
                      WasKept(rate, Rates),
                      \A line \in Range(req[r].lines) : line.rate = rate
               PROVE  2 * Abs(req[r].totals.tax * 100000
                                - req[r].totals.subtotal * rate)
                        <= 100000 * Len(req[r].lines)
    BY DEF TaxDriftIsBounded
  <2> DEFINE lines    == DOMAIN req[r].lines
             subtotal == Terms(r, "subtotal")
             tax      == Terms(r, "tax")
  <2>1. rate \in Int
    BY InputsAreNumbers
  <2>2. /\ IsFiniteSet(lines) /\ Cardinality(lines) = Len(req[r].lines)
        /\ subtotal \in [lines -> Int] /\ tax \in [lines -> Int]
        /\ req[r].totals.subtotal = SumFunction(subtotal)
        /\ req[r].totals.tax = SumFunction(tax)
    BY SavedTotals
  <2>3. ASSUME NEW i \in lines
        PROVE  /\ -50000 <= tax[i] * 100000 + subtotal[i] * (-rate)
               /\ tax[i] * 100000 + subtotal[i] * (-rate) <= 50000
    <3>1. /\ subtotal[i] = req[r].lines[i].amounts.subtotal
          /\ tax[i] = req[r].lines[i].amounts.tax
      BY DEF Terms
    <3>2. subtotal[i] \in Int /\ tax[i] \in Int
      BY <2>2
    <3>3. req[r].lines[i].rate = rate
      BY DEF Range
    <3>4. WasTaxed(req[r].lines[i].amounts, rate)
      BY <3>3 DEF LinesWereGiven
    <3> HIDE DEF subtotal, tax
    <3> QED
      BY <3>1, <3>2, <3>4, TaxedAtKeptRate
  <2> HIDE DEF lines, subtotal, tax
  <2>4. PICK k \in Int, w \in Int, half \in Int :
          k = 100000 /\ w = -rate /\ half = 50000
    BY <2>1
  <2>6. \A i \in lines : /\ -half <= tax[i] * k + subtotal[i] * w
                         /\ tax[i] * k + subtotal[i] * w <= half
    BY <2>3, <2>4
  <2>7. /\ -(half * Cardinality(lines))
              <= SumFunction(tax) * k + SumFunction(subtotal) * w
        /\ SumFunction(tax) * k + SumFunction(subtotal) * w
              <= half * Cardinality(lines)
    <3>1. IsFiniteSet(lines)
      BY <2>2
    <3>2. tax \in [lines -> Int]
      BY <2>2
    <3>3. subtotal \in [lines -> Int]
      BY <2>2
    <3> QED
      BY <2>6, <3>1, <3>2, <3>3, WeighedSumIsBounded
  <2>8. /\ SumFunction(tax) \in Int /\ SumFunction(subtotal) \in Int
        /\ Cardinality(lines) \in Nat
    BY <2>2, SumIsInt, FS_CardinalityType
  <2>9. PICK drift \in Int :
          drift = SumFunction(tax) * 100000 - SumFunction(subtotal) * rate
    BY <2>1, <2>8
  <2>10. drift = SumFunction(tax) * k + SumFunction(subtotal) * w
    BY <2>1, <2>4, <2>8, <2>9
  <2>11. 2 * Abs(drift) <= 100000 * Cardinality(lines)
    BY <2>4, <2>7, <2>8, <2>10 DEF Abs
  <2> QED
    BY <2>2, <2>9, <2>11
<1>2. Spec => []Given
  BY LinesGiven
<1> HIDE DEF Given
<1> QED
  BY <1>1, <1>2, CalculatorInvariant, PTL
=============================================================================
