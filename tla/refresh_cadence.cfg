SPECIFICATION Spec
CONSTANTS
  Keys = {"k1", "k2"}
  Msgs = {"m1"}
  MsgOf <- MCMsgOf
  ChatOf <- MCChatOf
  Texts = {"A", "B"}
  Known = {"k1"}
  Noticed = {}
  Base = 2
  Early = 2
  Interval = 4
  ReactionHorizon = 6
  Horizon = 14
  MaxChanges = 1
  MaxSlow = 0
  Faults = {"fetch", "patchDropped", "pruneError"}
  MaxFaults = 1
INVARIANT EarlyChecksHappen
CHECK_DEADLOCK FALSE
