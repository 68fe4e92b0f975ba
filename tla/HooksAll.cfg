CONSTANTS
  pre_commit = pre_commit
  cursor = cursor
  claude = claude
  t1 = t1
  c1 = c1
  s1 = s1
  s2 = s2
  none = none
  Adapters <- MCAdapters
  GitHooks <- MCGitHooks
  EntryHooks <- MCEntryHooks
  Cursor = cursor
  Texts <- MCTexts
  Bases <- MCBases
  Slots <- MCSlots
  InitialRepos <- MCRepos
  MaxInstalls = 2
  MaxEdits = 2
  None = none

SPECIFICATION Spec
SYMMETRY SlotSymmetry
CHECK_DEADLOCK FALSE
INVARIANT TypeOK
INVARIANT ForeignSurvives
INVARIANT DriftIsReal
INVARIANT PinKept
PROPERTY NoDowngrade
PROPERTY InstallRepairs
