------------------------- MODULE MCModeratorRoster -------------------------
EXTENDS ModeratorRoster, TLC

CONSTANTS
  root,  \* on the break-glass list
  u,     \* a moderator
  lower  \* u in small letters, as somebody may have typed it into the table

TwoUsers == {root, u}
TwoSpellings == {root, u, lower}
InCapitals == [x \in Users |-> IF x = lower THEN u ELSE x]
OnlyRoot == {root}
Symmetry == Permutations(Sessions)
=============================================================================
