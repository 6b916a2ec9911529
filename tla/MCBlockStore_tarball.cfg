SPECIFICATION Spec
CONSTANTS
  Nodes = {n1}
  Small = {s1, s2}
  Large = {}
  MetaKeys = {m1, m2}
  Data = Data
  Lossy = {"tar", "verify"}
  MaxTimeouts = 2
  NoRequest = NoRequest
INVARIANTS Kept NothingExtra NoOrphans
PROPERTIES ImplementsBlockRefs
