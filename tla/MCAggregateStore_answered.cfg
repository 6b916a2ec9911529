SPECIFICATION Spec
CONSTANTS
  Requests = {r1, r2}
  Files = {f1, f2}
  Keys = {k}
  Data = Data
  NoMeta = NoMeta
  Absent = Absent
  None = None
PROPERTIES Answered
CHECK_DEADLOCK FALSE
