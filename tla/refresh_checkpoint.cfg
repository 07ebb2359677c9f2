SPECIFICATION Spec
CONSTANTS
  Keys = {"k1"}
  Msgs = {"m1"}
  MsgOf <- MCMsgOf
  ChatOf <- MCChatOf
  Texts = {"A", "B"}
  Known = {"k1"}
  Noticed = {}
  Base = 2
  Early = 2
  Interval = 4
  ReactionHorizon = 6
  Horizon = 9
  MaxChanges = 0
  MaxSlow = 0
  Faults = {}
  MaxFaults = 0
INVARIANT EveryCheckpointFires
CHECK_DEADLOCK FALSE
