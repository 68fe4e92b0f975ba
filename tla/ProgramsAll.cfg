CONSTANTS
  i1 = i1
  i2 = i2
  k1 = k1
  k2 = k2
  source = source
  agentsmd = agentsmd
  Ids <- MCIds
  Kits <- MCKits
  User = user
  None = none
  Foreign = foreign
  MaxFrames = 2
  MaxEdits = 2
  MaxFlaws = 1
  Items = 2
  Turns = 2
  Plan <- MCPlan
  Archived <- MCArchived
  Agents = agentsmd
  Cases = 2
  MaxTampers = 2

SPECIFICATION MCSpec
CHECK_DEADLOCK FALSE
INVARIANT TypeOK
INVARIANT KitsKept
INVARIANT UnfinishedBlocks
INVARIANT VerdictBacked
INVARIANT RecordFaithful
INVARIANT Earned
INVARIANT EvidenceKept
