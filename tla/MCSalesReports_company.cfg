\* Two companies: three calls about accounts, or three about customers and
\* settings, or a report beside two commits.
SPECIFICATION SalesSpec
CONSTANTS
  Calls = {a1, a2, a3}
  Seeded = {s1, s2}
  s1 = s1
  s2 = s2
  e1 = e1
  e2 = e2
  e3 = e3
  Normal <- MCNormal
  w1 = w1
  SeededEmail <- MCSeededEmail
  SeededPassword <- MCSeededPassword
  Emails = {e1, e2, e3, E3}
  Passwords = {w1, w2}
  None = None
  Scenarios <- MCScenarios
  MaxCrashes = 1
  Readers = {q1}
  Invoices = {i1, i2}
  Contents <- MCContents
  Today = 15
  MonthStart = 1
  Periods <- MCPeriods
  SeededStatuses = {"draft", "signed", "rejected"}
  MaxChanges = 2
SYMMETRY Symmetry
INVARIANTS
  SalesTypeOK
  DuplicatesOverlap
  RightPasswordsAreAccepted
  
  QuietReportsAreExact
  DashboardSalesWereTrue
  DashboardCountsFit
PROPERTIES
  ReactivationIsAsked
\* every call is served once, and then nothing happens
CHECK_DEADLOCK FALSE
