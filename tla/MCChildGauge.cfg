CONSTANTS
  u1 = u1
  u2 = u2
  WEEK = 3
  SCALE = 12
  Genesis = 4
  MaxTime = 10
  MaxStake = 10
  MaxSteps = 7
  Users <- MCUsers
  Receivers <- ToSelf
  Amounts <- MCAmounts
  Emissions <- MCEmissions
  VeBalances <- MCVeBalances
  VeTotals <- MCVeTotals
SPECIFICATION MCSpec
INVARIANTS CGTypeOK WorkingIsSum MintsAreCovered SDLIsConserved
PROPERTIES AccruedIsKept
SYMMETRY UserSymmetry
CHECK_DEADLOCK FALSE
