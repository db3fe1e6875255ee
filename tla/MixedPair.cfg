CONSTANTS
  p1 = p1  p2 = p2
  Pod = {p1, p2}
  Key = {1, 2, 3, 4, 5, 6, 7, 8, 9, 10}
  None = None
  Life = 9
  certRenewalPeriod = 3
  Cases <- MCCases
  InARow = 2
  One = {}
  Two = {{}}
SPECIFICATION FairSpec
INVARIANT UnusableIsRenewed
CHECK_DEADLOCK FALSE
