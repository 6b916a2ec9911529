SPECIFICATION Spec
CONSTANTS
  Nodes = {n1, n2}
  Small = {s1}
  Large = {l1}
  MetaKeys = {m1, m2}
  Data = Data
  NoRequest = NoRequest
  Absent = Absent
  Torn = Torn
  Raw = Raw
  MaxCrashes = 1
INVARIANTS LostOnlyWhereExposed
PROPERTIES ImplementsStore
SYMMETRY Symmetry
