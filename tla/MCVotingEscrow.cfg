CONSTANTS
  u1 = u1
  u2 = u2
  Escrow = Escrow
  RewardPool = RewardPool
  WEEK = 2
  MAXTIME = 4
  MULTIPLIER = 8
  MaxWeeks = 5
  Wallet = 8
  Genesis = 1
  MaxTime = 6
  Users <- MCUsers
  Values <- MCValues
  UnlockTimes <- MCUnlockTimes
SPECIFICATION VESpec
INVARIANTS VETypeOK TotalIsSum WeightComesFromLock LocksAreBacked
SYMMETRY Symmetry
CHECK_DEADLOCK FALSE
