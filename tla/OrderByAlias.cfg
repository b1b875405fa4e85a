SPECIFICATION Spec
CONSTANTS
  t = t
  u = u
  v = v
  a = a
  b = b
  c = c
  x = x
  Null = Null
  None = None
  Star = Star
  MaxRows = 3
  Columns <- MCColumns
  Queries <- MCQueries
  Databases <- MCDatabases
INVARIANTS OrderedByAlias
CHECK_DEADLOCK FALSE
