SPECIFICATION Spec
CONSTANTS
  Buffers = {b1, b2, b3, b4, b5}
  Null = Null
  Freed = Freed
  Hosts = {"h1", "h2"}
  DefaultHosts = "h0"
  Lists = {"l1", "l2"}
  BadStrings = {"bad"}
  Files <- SomeFiles
  Argvs <- SomeArgvs
  MaxReloads = 2
INVARIANTS
  TypeOK StartUpApplies ValuesOfAcceptedFile
CHECK_DEADLOCK FALSE
SYMMETRY BufferSymmetry
