CONSTANTS
  p1 = p1  p2 = p2
  Pod = {p1, p2}
  Key = {1, 2, 3, 4, 5, 6, 7, 8, 9, 10}
  None = None
  Life = 9
  certRenewalPeriod = 3
  Cases <- MCCases
  InARow = 2
  One = {{"fault", "crash", "death"}, {"crash", "death", "loss"}}
  Two = {{"crash"}, {"loss"}}
SPECIFICATION FairSpec
INVARIANTS
  TypeOK
  NeverAnswersExpired
PROPERTIES
  SecretStaysServable
  AlwaysReadyAgain
CHECK_DEADLOCK FALSE
