SPECIFICATION Spec
CONSTANTS
  Retrievals = {r1, r2}
  Versions = {v1}
  Paths = {p1}
  basename = basename
  BaseOf <- MCBaseOf
  Seconds = {s1, s2}
  Blocks = {b1, b2, b3}
  code_k = 2
  More = 1
  MaxCalls = 2
  MaxRetries = 1
  ByKey = ByKey
  InDir = InDir
  Data = Data
  None = None
INVARIANTS RestoresWhole FailsForBlocks SavedStays
SYMMETRY Symmetry
