CONSTANTS
  i = i
  s = s
  c = c
  a = a
  l1 = l1
  l2 = l2
  t1 = t1
  BUs = {i, s, c, a}
  NoBU = NoBU
  Locs = {l1, l2}
  Etas = {t1}
SPECIFICATION Spec
INVARIANT DocumentMatchesPack
