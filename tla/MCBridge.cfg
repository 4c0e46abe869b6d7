CONSTANTS
  u1 = u1
  u2 = u2
  p1 = p1
  p2 = p2
  sBTC = sBTC
  sUSD = sUSD
  sAAVE = sAAVE
  Users = {u1, u2}
  Pools = {p1, p2}
  Synths = {sBTC, sUSD, sAAVE}
  Medium <- MCMedium
  MaxItems = 3
  Amounts = {2}
  Corrections <- MCCorrections
  Requests = {0, 1, 2, 3}
  NoSwap = NoSwap
  NoOwner = NoOwner
SPECIFICATION Spec
INVARIANTS RecordsAgree NothingLostWithClone OwnerCanFinish
SYMMETRY UserSymmetry
CHECK_DEADLOCK FALSE
