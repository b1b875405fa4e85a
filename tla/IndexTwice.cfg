SPECIFICATION Spec
CONSTANTS
  c1 = c1
  c2 = c2
  p1 = p1
  p2 = p2
  p3 = p3
  p4 = p4
  t1 = t1
  t2 = t2
  id = id
  x = x
  ix = ix
  None = None
  Conns = {c1}
  Tables = {t1, t2}
  Items = {id, x, ix}
  Indexes = {ix}
  AutoCol = id
  Ptrs = {p1, p2, p3, p4}
  Workload <- IndexTwiceWorkload
  Serial = TRUE
  MaxStmts = 4
  MaxRestarts = 0
  MaxFaults = 0
SYMMETRY Interchangeable
INVARIANTS IndexesAgree
