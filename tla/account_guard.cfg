SPECIFICATION Spec
CONSTANTS
  mine = mine
  other = other
  k1 = k1
  k2 = k2
  k3 = k3
  NoAccount = NoAccount
  NoKey = NoKey
  Accounts <- TwoAccounts
  Keys <- ThreeKeys
  AccountOf <- Opens
  HaltAfter = 2
  Faults <- LateBinds
INVARIANTS
  OrdersFollowTheAccount
  ResetWaitsForStart
PROPERTIES
  NoBookAbandoned
SYMMETRY SameAccount
