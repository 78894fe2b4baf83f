SPECIFICATION Spec
CONSTANTS
  NULL = NULL
  l1 = l1
  l2 = l2
  Logons = {l1, l2}
  Lookback = 3
  Interval = 1
  LongestRequest = 1
  Resolution = 2
  MaxPosts = 2
  Horizon = 8
SYMMETRY LogonSymmetry
INVARIANTS TypeOK NoneMissed OneAlertPerLogon
