SPECIFICATION Spec
CONSTANTS
  r1 = r1
  r2 = r2
  None = None
  Failed = Failed
  Requests = {r1}
  Configs <- OnlyPlain
  Inputs <- OneDevice
  Answers <- ShelvedOnly
  BanSets <- DeviceBan
  MaxAttempts = 2
INVARIANT LookupOutageStillPosts
