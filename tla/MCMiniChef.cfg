CONSTANTS
  u1 = u1
  u2 = u2
  MaxSteps = 6
  Stakers = {u1, u2}
  ACC_TOKEN_PRECISION = 4
  ACC_SADDLE_PRECISION = 4
  RewardRates = {5}
  Genesis = 4
  MaxTime = 6
  MaxPools = 2
  RewarderPid = 1
  AllocPoints = {0, 2}
  Delegates = {"none", "simple"}
  SaddleRates = {10}
  LPAmounts = {1, 3}
  LPGifts = {1}
  LPEndowment = 3
  SaddleFunds = 40
  RewardFunds = {10}
SPECIFICATION MCSpec
INVARIANTS ChefTypeOK TotalAllocIsSum StakesAreBacked EarnedWithinCredit RewarderPaysSinceAttached
PROPERTIES OnlyTimeEarns
SYMMETRY StakerSymmetry
CHECK_DEADLOCK FALSE
