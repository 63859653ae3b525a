SPECIFICATION Spec
CONSTANTS
  None = None
  UserIds = {u1, u2}
  MAX_ROSTER_SIZE = 3
  BreakGlass = {u1}
  Beginnings <- MCBeginnings
  Spoken = {"x", "by", "on", "of", "the", "album", "please", "vinyl", "spotify", "tidal", "comma", "stop", "open", "close"}
  Products <- MCProducts
  Legs <- MCLegs
  MaxTokens = 3
  MaxProducts = 2
  MaxLegs = 3
  MaxRows = 4
INVARIANTS
  PeelIsFaithful
  CallersAreToldApart
  TimingKeepsEveryLeg
  RosterCountsWhole
CHECK_DEADLOCK FALSE
