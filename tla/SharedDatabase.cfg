SPECIFICATION Spec
CONSTANTS
  None = None
  Conns = {c1, c2}
  DBs = {shop, blog}
  DefaultDB = shop
  Explicit = TRUE
  Agree = FALSE
  MaxSteps = 6
INVARIANT OwnDatabase
