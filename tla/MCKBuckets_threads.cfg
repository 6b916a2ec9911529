SPECIFICATION FairSpec
CONSTANTS
  IdSpace = 16
  K = 3
  Ids <- TableIds
  Seen <- TableSeen
  a1 = a1
  a2 = a2
  Addrs = {a1, a2}
  Local = 4
  LocalAddr = a1
  Callers = {t1, t2}
  NoContact = NoContact
INVARIANTS Partition Placed OneContactPerId Capacity
PROPERTIES NothingForgotten NoneMeansInsertedInside InsertReturns
