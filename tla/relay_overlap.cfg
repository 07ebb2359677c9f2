SPECIFICATION Spec
CONSTANTS
  Chats = {"chan", "group"}
  Msgs = {1, 2}
  ChatOf <- MCOneChat
  Bodies = {"hit", "miss"}
  Webhooks = {"w1"}
  NumRoutes = 2
  RouteChat <- MCRouteChat
  To <- MCTo
  Passes <- MCPasses
  DedupCap = 2
  BackfillCount = 2
  MaxLog = 1
  MaxBackfills = 1
  Faults = {}
  MaxFaults = 0
INVARIANT NeverTwice
CHECK_DEADLOCK FALSE
