SPECIFICATION FairSpec
CONSTANTS
  r1 = r1
  r2 = r2
  None = None
  Failed = Failed
  Requests = {r1}
  Configs <- Deployments
  Inputs <- AnyHeaders
  Answers <- LmlAnswers
  BanSets <- AnyBan
  MaxAttempts = 2
INVARIANTS
  TypeOK
  BansDecide
  VerdictMatchesRows
  OutagesAreVisible
  ServerErrorsAreKnown
  OperatorIsNotMisled
PROPERTY
  EveryRequestAnswered
