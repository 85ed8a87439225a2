\* Three documents created at once, in two series.
SPECIFICATION FairSpec
CONSTANTS
  p1 = p1
  p2 = p2
  Requests = {r1, r2, r3}
  DocTypes = {"invoice"}
  Prefixes = {p1, p2}
  DefaultPrefix <- MCDefaultPrefix
  None = None
  MaxSettings = 1
INVARIANTS
  NumberingInv
  NumbersAreUnique
  NumbersAreGapless
PROPERTIES
  ImplementsAtomicNumbering
  CreationsFinish
\* every request is served once, and then nothing happens
CHECK_DEADLOCK FALSE
