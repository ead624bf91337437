CONSTANTS
  MaxUint64 = 4
  MaxRenewalCount = 2
  MaxPolicyCount = 1
  MinTTL = 1
  MaxTTL = 2
  MinWrap = 1
  MaxWrap = 1
  Assertion = {a1}
  Duration = {0, 1, 2, 3}
SPECIFICATION Spec
INVARIANTS TypeOK PlansApplyOnce TokensBalance AlwaysRevocable
CHECK_DEADLOCK FALSE
