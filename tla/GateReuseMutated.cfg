CONSTANTS
  pol = pol
  a = a
  b = b
  g = g
  t1 = t1
  t2 = t2
  zoned = zoned
  plain = plain
  absent = absent
  unread = unread
  c1 = c1
  c2 = c2
  Files <- MCFiles
  Pol = pol
  Texts <- MCTexts
  Policies <- MCPolicies
  Doc <- MCDoc1
  May <- FilesOnly
  Commits <- OneCommit
  Tree <- OneTree
  Index <- MCIndex
  HeadCommit = c1
  Ignored <- NoneIgnored
  N = 1
  Reqs <- MCReqs
  Options <- ReuseTrusting
  InitialDisks <- ZonedDisk
  Window = 2
  MaxRuns = 2
  MaxEdits = 1
  Absent = absent
  Unread = unread

SPECIFICATION Spec
CHECK_DEADLOCK FALSE
INVARIANT NoReuseOfMutated
