SPECIFICATION Spec
CONSTANTS
  root = root
  u = u
  lower = lower
  Users <- TwoUsers
  Upper <- InCapitals
  BreakGlass <- OnlyRoot
  Sessions = {s1, s2}
  MaxSaves = 1
  Unread = Unread
  Operator = Operator
SYMMETRY Symmetry
INVARIANTS TypeOK RepliesAreTruthful
PROPERTIES NoLostUpdate OnlyAuthorizedEdits OnlyDeliberateEmptying
