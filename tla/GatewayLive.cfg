CONSTANTS
  read_file = read_file
  exec = exec
  no_id = no_id
  no_tool = no_tool
  no_frame = no_frame
  Ids <- TwoIds
  Tools <- MCTools
  AllowedTools <- MCAllowed
  Frames <- Frames3
  NoId = no_id
  NoTool = no_tool
  NoFrame = no_frame
  MaxPending = 1
  MaxFrames = 2
  MaxSpoken = 0

SPECIFICATION FairSpec
CHECK_DEADLOCK FALSE
PROPERTY EndsWithServer
PROPERTY EndsWithClient
INVARIANT NothingLost
INVARIANT CallsRecorded
