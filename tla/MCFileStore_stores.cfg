SPECIFICATION Spec
CONSTANTS
  Stores = {s1, s2, s3}
  Paths = {p}
  Contents = {c1, c2}
  Blocks = {b1, b2}
  Nodes = {n1, n2}
  Ask = 3
  None = None
INVARIANTS PublishedHeld ListedPublished EntryHasUsers CountsUsers
SYMMETRY Symmetry
