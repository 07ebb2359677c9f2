SPECIFICATION FairSpec
CONSTANTS
  NumItems = 5
  Msgs = {1, 2, 3}
  MsgOf <- MCMsgOf
  NoGroup = "single"
  GroupOf <- MCGroupOf
  Captioned = {2, 3}
  Big = {4}
  Webhooks = {"w1", "w2"}
  TargetsOf <- MCTargetsOf
  Reupload = {"w1"}
  OldRows <- MCOldRows
  DedupCap = 1
  Permits = 1
  ChannelCap = 1
  Window = 1
  MaxFaults = 1
INVARIANT TypeOK
INVARIANT EveryItemHasItsPlace
INVARIANT SettledIsAnswered
INVARIANT RepeatsNeedABurst
INVARIANT AnchorsRepeatExposed
INVARIANT RowsTellThePosts
PROPERTY BufferedAreNotAbandoned
PROPERTY MediaSettles
CHECK_DEADLOCK FALSE
