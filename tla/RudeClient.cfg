SPECIFICATION Spec
CONSTANTS
  None = None
  Conns = {c1, c2, c3}
PROPERTIES ShutdownTerminates
