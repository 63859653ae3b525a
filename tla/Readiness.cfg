SPECIFICATION Spec
CONSTANTS
  Calls = {c1, c2}
  Configs <- MCConfigs
  MaxRotations = 2
  None = None
INVARIANTS
  TypeOK
  SlackReportIsFair
  SmokeBlamesOutages
PROPERTY AddressSettles
SYMMETRY Symmetry
