SPECIFICATION Spec
CONSTANTS
  Columns <- MCColumns
  OnUpdate <- MCOnUpdate
  Statements <- CastStatements
  Tables <- MCTables
INVARIANT CastConverts
CHECK_DEADLOCK FALSE
