SPECIFICATION Spec
CONSTANTS
  a = a
  b = b
  s = s
  f = f
  n1 = n1
  n2 = n2
  s1 = s1
  s2 = s2
  path = path
  nowhere = nowhere
  False = False
  True = True
  Null = Null
  Missing = Missing
  NumberCols = {a, b}
  StringCols = {s}
  BoolCols = {f}
  Numbers = {n1, n2}
  Strings = {s1, s2, path, nowhere}
  Rank <- MCRank
  Names <- MCNames
  Depth <- ColumnDepth
  Conditions <- ColumnConditions
INVARIANT ComparisonIsSql
