SPECIFICATION MCSpec
CONSTANTS
  Probe = 2
  Attempts = 3
  RestartSec = 1
  StopTimeout = 2
  MaxBusy = 2
  MaxPost = 1
  MaxFaults = 2
  Cap = 9
  Files = {"base", "more", "moved", "unset", "mute", "typo"}
  Text <- MCText
  Env = {"E1", "E2"}
  MaxEdits = 3
  MaxTrouble = 2
INVARIANT LossIsReal
INVARIANT OutageIsBounded
PROPERTY PoolEndIsFatal
PROPERTY RevocationIsFatal
INVARIANT LagIsExcused
PROPERTY EditsTakeEffect
CHECK_DEADLOCK FALSE
