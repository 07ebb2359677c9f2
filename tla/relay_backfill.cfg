SPECIFICATION Spec
CONSTANTS
  Chats = {"chan", "group"}
  Msgs = {1, 2}
  ChatOf <- MCOneChat
  Bodies = {"hit", "miss"}
  Webhooks = {"w1"}
  NumRoutes = 2
  RouteChat <- MCRouteChat
  To <- MCTo
  Passes <- MCPasses
  DedupCap = 2
  BackfillCount = 2
  MaxLog = 2
  MaxBackfills = 1
  Faults = {"checkError", "lostReply", "drop", "recordError", "crash", "shutdown", "backfillCrash", "prune"}
  MaxFaults = 2
INVARIANT RepeatsAreExposed
CHECK_DEADLOCK FALSE
