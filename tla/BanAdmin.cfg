SPECIFICATION FairSpec
CONSTANTS
  Calls = {a, b}
  Configs <- AllConfigs
  NoBan = NoBan
  None = None
INVARIANTS
  TypeOK
  TokenTroubleIsTheOperators
PROPERTIES
  ImplementsTable
  EveryCallAnswered
