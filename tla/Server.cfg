SPECIFICATION Spec
CONSTANTS
  None = None
  Conns = {c1, c2, c3}
INVARIANTS TypeOK NoStatementCut TableIsExact AtMostOneMissed
PROPERTIES ShutdownUnlessMissed ShutdownIfClientsLeave
