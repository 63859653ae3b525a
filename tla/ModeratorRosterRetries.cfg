SPECIFICATION FairSpec
CONSTANTS
  root = root
  u = u
  lower = lower
  Users <- TwoSpellings
  Upper <- InCapitals
  BreakGlass <- OnlyRoot
  Sessions = {s1}
  MaxSaves = 3
  Unread = Unread
  Operator = Operator
INVARIANT ConflictIsReal
PROPERTIES EveryInteractionAnswered ImplementsRegister
