SPECIFICATION RetryingSpec
CONSTANTS
  Writers = {w1, w2}
  Commands = {finalize, client}
  FinalizeId = finalize
  Reviewers = {r1}
  ChangeIds = {1, 2}
  ChangeOf <- RevokeThenSupersede
  Policies = {p1, p2}
  None = None
  MaxFailures = 1
  MaxStops = 1
INVARIANTS TypeOK WrittenIsConfirmed
PROPERTIES RetiredStays ImplementsMemory WrittenUnlessRefused
