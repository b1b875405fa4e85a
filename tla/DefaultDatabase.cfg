SPECIFICATION Spec
CONSTANTS
  None = None
  Conns = {c1, c2}
  DBs = {shop, blog}
  DefaultDB = shop
  Explicit = FALSE
  Agree = TRUE
  MaxSteps = 6
INVARIANT OwnDatabase
