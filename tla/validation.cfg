CONSTANTS
  Policy = {1, 2, 3, 4}
  AllowedPolicies = {1, 3, 4}
  Part = {"a", "bb"}
  MaxPolicies = 2
  MaxParts = 2
  MaxPathBytes = 4
  MaxInt32 = 1
SPECIFICATION Spec
INVARIANTS TypeOK VerdictIsRight AcceptedStaysInside
CHECK_DEADLOCK FALSE
