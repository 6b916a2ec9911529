SPECIFICATION Spec
CONSTANTS
  Nodes = {n1}
  Small = {s1}
  Large = {}
  MetaKeys = {m1, m2}
  Data = Data
  Lossy = {"delete"}
  MaxTimeouts = 2
  NoRequest = NoRequest
INVARIANT Kept
