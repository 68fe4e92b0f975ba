CONSTANTS
  pol = pol
  a = a
  b = b
  g = g
  t1 = t1
  t2 = t2
  zoned = zoned
  plain = plain
  absent = absent
  unread = unread
  c1 = c1
  c2 = c2
  Files <- TrustFiles
  Pol = pol
  Texts <- MCTexts
  Policies <- MCPolicies
  Doc <- TrustDoc
  May <- TrustMay
  Commits <- MCCommits
  Tree <- TrustTree
  Index <- TrustIndex
  HeadCommit = c1
  Ignored <- TrustIgnored
  N = 1
  Reqs <- MCReqs
  Options <- WorktreeOptions
  InitialDisks <- TrustDisks
  Window = 2
  MaxRuns = 2
  MaxEdits = 2
  Absent = absent
  Unread = unread

SPECIFICATION WorktreeSpec
CHECK_DEADLOCK FALSE
INVARIANT StableEvidence
INVARIANT AuthorityHolds
INVARIANT ReuseEvidence
INVARIANT RequirementEvidence
