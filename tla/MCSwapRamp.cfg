CONSTANTS
  A_PRECISION = 10
  Precision = 10
  MAX_A = 7
  MAX_A_CHANGE = 2
  MIN_RAMP_TIME = 3
  ONE_DAY = 1
  Genesis = 1
  MaxTime = 6
  InitialAs <- ZeroOrTwo
  RampTargets <- Ramps
  MAX_LOOP_LIMIT = 256
  u1 = u1
  u2 = u2
  owner = owner
  MaxSteps = 6
  Users = {u1}
  Owner = owner
  N = 2
  Multipliers <- Uneven
  TransferFee <- SecondKeeps
  Endowment = 8
  FEE_DENOMINATOR = 100
  MAX_SWAP_FEE = 40
  MAX_ADMIN_FEE = 100
  SwapFees <- Fees
  AdminFees <- HalfOrAll
  SwapAmounts <- Three
  LiquidityAmounts <- OneSided
  Minimums <- Zeros
  BurnShares <- AllOrHalf
  GiftShares <- AllOrHalf
  Dust = 2
SPECIFICATION MCSpec
INVARIANTS TypeOK Solvent RampIsGentle AIsUsable SharesHaveACurve
PROPERTIES AdminFeesAreSafe ANeverJumps
CHECK_DEADLOCK FALSE
