CONSTANTS
  read_file = read_file
  exec = exec
  no_id = no_id
  no_tool = no_tool
  no_frame = no_frame
  Ids <- OneId
  Tools <- MCTools
  AllowedTools <- MCAllowed
  Frames <- Frames1
  NoId = no_id
  NoTool = no_tool
  NoFrame = no_frame
  MaxPending = 2
  MaxFrames = 2
  MaxSpoken = 1

SPECIFICATION Spec
CHECK_DEADLOCK FALSE
INVARIANT TypeOK
INVARIANT ListsFiltered
INVARIANT NoExtraAnswer
INVARIANT SlotsAreOwed
INVARIANT CleanExit
