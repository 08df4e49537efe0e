SPECIFICATION Spec
CONSTANTS
  Northstar = Northstar
  Harbour = Harbour
  Books <- TheBooks
  FirstBook <- Before2025
  Hashes = {g1, g2}
  FirstHash = g1
  FactOrder <- TheFacts
  Answers <- TheAnswers
  Missing = Missing
  Invalid = Invalid
  Foreign = Foreign
  Padded = Padded
  Whole = 3
  Given <- TheRest
  Precedents = {1, 2, 3}
  FunderOf <- Funder
  Seeded = {1, 2, 3}
  ProfileScore <- OnProfile
  CommentsScore <- OnComments
  ProfileWeight = 3
  CommentsWeight = 1
  MinScore = 180
  TopK = 2
  CandidateLimit = 3
  NoValue = NoValue
  MaxRestarts = 1
  MaxChanges = 1
INVARIANTS TypeOK ReviewedIsValidated AdviceIsGrounded
PROPERTIES RankingIsBest
CHECK_DEADLOCK FALSE
