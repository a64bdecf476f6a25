SPECIFICATION Spec
CONSTANTS
  Invocations = {d1, d2, d3}
  None = None
  Failed = Failed
INVARIANTS
  OneInstance
CHECK_DEADLOCK FALSE
SYMMETRY InvocationSymmetry
