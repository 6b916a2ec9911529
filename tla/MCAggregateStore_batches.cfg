SPECIFICATION Spec
CONSTANTS
  Requests = {r1, r2, r3}
  Files = {f1, f2}
  Keys = {k}
  Data = Data
  NoMeta = NoMeta
  Absent = Absent
  None = None
SYMMETRY Symmetry
INVARIANTS Truthful Carried StrandedOnlyByFailure
PROPERTIES AnsweredOnce
CHECK_DEADLOCK FALSE
