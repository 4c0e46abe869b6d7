CONSTANTS
  u1 = u1
  u2 = u2
  Escrow = Escrow
  RewardPool = RewardPool
  WEEK = 2
  MAXTIME = 4
  MULTIPLIER = 8
  MaxWeeks = 5
  Wallet = 9
  Genesis = 1
  MaxTime = 6
  DURATION = 2
  SCALE = 12
  MaxSteps = 5
  Users <- MCUsers
  Payers <- MCPayers
  Values <- MCValues
  UnlockTimes <- MCUnlockTimes
  Rewards <- MCRewards
SPECIFICATION MCSpec
INVARIANTS RewardsAreCovered UpdateNeverReverts
PROPERTIES EarnedIsKept
CHECK_DEADLOCK FALSE
