CONSTANTS
  A_PRECISION = 10
  Precision = 10
  MAX_A = 7
  MAX_A_CHANGE = 2
  MIN_RAMP_TIME = 4
  ONE_DAY = 1
  Genesis = 1
  MaxTime = 1
  InitialAs <- TwoAs
  RampTargets <- None
  MAX_LOOP_LIMIT = 256
  u1 = u1
  u2 = u2
  owner = owner
  MaxSteps = 5
  Users = {u1, u2}
  Owner = owner
  N = 2
  Multipliers <- Even
  TransferFee <- NoFee
  Endowment = 8
  FEE_DENOMINATOR = 100
  MAX_SWAP_FEE = 40
  MAX_ADMIN_FEE = 100
  SwapFees <- SomeFee
  AdminFees <- MidAdmin
  SwapAmounts <- Three
  LiquidityAmounts <- Vectors
  Minimums <- Zeros
  BurnShares <- AllOrHalf
  GiftShares <- AllOrHalf
  Dust = 1
SPECIFICATION MCSpec
INVARIANTS SharesAreBacked ExitAlwaysPossible
PROPERTIES PausedKeepsProRata ShareValueHolds
SYMMETRY UserSymmetry
CHECK_DEADLOCK FALSE
