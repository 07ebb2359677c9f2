SPECIFICATION FairSpec
CONSTANTS
  Chats = {"chan", "group"}
  Msgs = {1, 2}
  ChatOf <- MCTwoChats
  Bodies = {"hit", "miss"}
  Webhooks = {"w1"}
  NumRoutes = 3
  RouteChat <- MCRouteChat
  To <- MCTo
  Passes <- MCPasses
  DedupCap = 1
  BackfillCount = 2
  MaxLog = 3
  MaxBackfills = 0
  Faults = {"checkError", "lostReply", "drop", "recordError", "crash", "shutdown", "backfillCrash", "prune"}
  MaxFaults = 2
INVARIANT TypeOK
INVARIANT Accounted
INVARIANT RepeatsAreExposed
INVARIANT WantedIsInHand
INVARIANT OverlapNeedsABurst
PROPERTY KeepsPromise
PROPERTY WantedIsAnswered
CHECK_DEADLOCK FALSE
