CONSTANTS
  pol = pol
  a = a
  b = b
  g = g
  t1 = t1
  t2 = t2
  zoned = zoned
  plain = plain
  absent = absent
  unread = unread
  c1 = c1
  c2 = c2
  Files <- MCFiles
  Pol = pol
  Texts <- MCTexts
  Policies <- MCPolicies
  Doc <- MCDoc
  May <- MCMay
  Commits <- MCCommits
  Tree <- MCTree
  Index <- MCIndex
  HeadCommit = c1
  Ignored <- NoneIgnored
  N = 2
  Reqs <- MCReqs
  Options <- AllOptions
  InitialDisks <- MCDisks
  Window = 2
  MaxRuns = 1
  MaxEdits = 1
  Absent = absent
  Unread = unread

SPECIFICATION Spec
CHECK_DEADLOCK FALSE
INVARIANT TypeOK
INVARIANT RequirementEvidence
INVARIANT PassIsEarned
PROPERTY ContractHolds
