SPECIFICATION Spec
CONSTANTS
  Queries <- MCQueries
  Length = 4
INVARIANTS CommentsAreBlanks RoutedByTokens OneColumnEach
CHECK_DEADLOCK FALSE
