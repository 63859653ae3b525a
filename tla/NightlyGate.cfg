SPECIFICATION Spec
CONSTANTS
  Commits <- MCCommits
  None = None
  MaxCommits = 2
  MaxManual = 1
INVARIANTS
  TypeOK
  CalledOffIsValidated
  OneTwinActs
PROPERTY
  UnvalidatedHeadIsRun
