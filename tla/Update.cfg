SPECIFICATION Spec
CONSTANTS
  Columns <- MCColumns
  OnUpdate <- MCOnUpdate
  Statements <- MCStatements
  Tables <- MCTables
INVARIANTS UpdateIsSql ValuesAreSql
CHECK_DEADLOCK FALSE
