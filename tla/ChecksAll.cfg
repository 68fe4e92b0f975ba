CONSTANTS
  i1 = i1
  i2 = i2
  Items <- MCItems
  Initial <- MCInitial
  MaxOutput = 1
  MaxEdits = 1

SPECIFICATION FairSpec
CHECK_DEADLOCK FALSE
INVARIANT TypeOK
INVARIANT VerdictIsWhole
INVARIANT KillsOwn
INVARIANT NothingEscapes
PROPERTY PassIsCurrent
PROPERTY CheckReturns
