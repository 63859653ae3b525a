SPECIFICATION Spec
CONSTANTS
  root = root
  u = u
  Users <- TwoUsers
  BreakGlass <- OnlyRoot
  Clicks = {c1, c2}
  MaxSubmits = 2
  NoBan = NoBan
  None = None
INVARIANTS
  PostSurvives
  AnnouncementsAreTrue
  OnlyModeratorsAct
PROPERTY ImplementsTable
SYMMETRY ClickSymmetry
