SPECIFICATION LedgerSpec
CONSTANTS
  Results = {c1, c2, p1}
  Past = {p1}
  NoResult = none
  MaxOutages = 2
CHECK_DEADLOCK FALSE
INVARIANT SessionIsIndependent
