CONSTANTS
  i = i
  s = s
  c = c
  a = a
  BUs = {i, s, c, a}
  NoBU = NoBU
  MaxEvents = 4
SPECIFICATION Spec
INVARIANT ScanMatchesSpec
CHECK_DEADLOCK FALSE
