SPECIFICATION FairSpec
CONSTANTS
  a1 = a1
  a2 = a2
  Apps <- TheApps
  Policies = {p1, p2}
  FirstPolicy = p1
  NoApp = NoApp
  MaxRestarts = 1
  MaxCalls <- Twice
INVARIANTS TypeOK TombstoneTrue
PROPERTIES OnlyExpiredForgotten ExpiredForgotten
CHECK_DEADLOCK FALSE
