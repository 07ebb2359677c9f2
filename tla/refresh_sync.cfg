SPECIFICATION Spec
CONSTANTS
  Keys = {"k1"}
  Msgs = {"m1"}
  MsgOf <- MCMsgOf
  ChatOf <- MCChatOf
  Texts = {"A", "B"}
  Known = {"k1"}
  Noticed = {}
  Base = 1
  Early = 1
  Interval = 2
  ReactionHorizon = 3
  Horizon = 7
  MaxChanges = 3
  MaxSlow = 1
  Faults = {"dueError", "fetch", "patchDropped", "replyLost", "storeError", "pruneError",
            "crash"}
  MaxFaults = 2
INVARIANT TypeOK
 
INVARIANT StaleIsBounded
INVARIANT PollingIsPolite
INVARIANT TombstonesAreDeserved
 
CHECK_DEADLOCK FALSE
