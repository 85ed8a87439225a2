\* Documents of two lines, while the product they sell changes.
SPECIFICATION Spec
CONSTANTS
  Requests = {r1}
  Products = {p1}
  None = None
  Quantities <- MCQuantities
  Prices <- MCPrices
  Rates <- MCRates
  MaxLines = 2
INVARIANTS
  CalculatorInv
  AmountsAreNearest
  TotalIsBasePlusTax
  TaxDriftIsBounded
  ProductLinesUseCatalog
  ProductLinesRecompute
