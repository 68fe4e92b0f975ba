CONSTANTS
  read_file = read_file
  exec = exec
  no_id = no_id
  no_tool = no_tool
  no_frame = no_frame
  Ids <- OneId
  Tools <- MCTools
  AllowedTools <- MCAllowed
  Frames <- FewFrames
  NoId = no_id
  NoTool = no_tool
  NoFrame = no_frame
  MaxPending = 1
  MaxFrames = 1
  MaxSpoken = 0

SPECIFICATION Spec
CHECK_DEADLOCK FALSE
PROPERTY NoWriteIntoClosedLog
