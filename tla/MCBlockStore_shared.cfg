SPECIFICATION Spec
CONSTANTS
  Nodes = {n1, n2}
  Small = {}
  Large = {l}
  MetaKeys = {m1, m2}
  Data = Data
  Lossy = {"direct", "verify", "delete"}
  MaxTimeouts = 2
  NoRequest = NoRequest
SYMMETRY Symmetry
INVARIANTS Kept NothingExtra NoOrphans
PROPERTIES ImplementsBlockRefs
