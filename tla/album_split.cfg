SPECIFICATION Spec
CONSTANTS
  NumItems = 2
  Msgs = {1, 2}
  MsgOf <- MCMsgOf
  NoGroup = "single"
  GroupOf <- MCGroupOf
  Captioned = {2}
  Big = {}
  Webhooks = {"w1", "w2"}
  TargetsOf <- MCTargetsOf
  Reupload = {"w1"}
  OldRows = {}
  DedupCap = 2
  Permits = 2
  ChannelCap = 2
  Window = 2
  MaxFaults = 0
INVARIANT AlbumOnce
CHECK_DEADLOCK FALSE
