SPECIFICATION Spec
CONSTANTS
  r1 = r1
  r2 = r2
  None = None
  Failed = Failed
  Requests = {r1, r2}
  Configs <- OnlyFetched
  Inputs <- TwoKinds
  Answers <- ShelvedOnly
  BanSets <- DeviceBan
  MaxAttempts = 1
SYMMETRY Symmetry
PROPERTY KeepsPromise
