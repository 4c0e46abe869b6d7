CONSTANTS
  Precision = 10
  MAX_LOOP_LIMIT = 256
  PoolSizes = {2, 3}
  MaxBalance <- Small
  MaxSold = 8
  Unit = 1
  SwapSlack = 1
  YSlack = 3
  Amps = {10, 25, 100}
SPECIFICATION Spec
INVARIANTS DSolvesEquation SwapKeepsInvariant YDReachesD
CHECK_DEADLOCK FALSE
