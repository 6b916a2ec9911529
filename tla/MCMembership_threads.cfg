SPECIFICATION MembershipSpec
CONSTANTS
  a1 = a1
  a2 = a2
  IdSpace = 16
  K = 3
  Ids <- MemberIds
  Addrs = {a1, a2}
  Seen <- SeenThere
  Local = 0
  LocalAddr = a1
  Callers = {server, runtime}
  Runtime = runtime
  NoContact = NoContact
  Visitors <- SomeVisit
  Peers <- SomePeers
  Named <- SomeNamed
  Located = {11}
  CacheSize = 1
INVARIANTS RatedResolve CachedHasNoRoom MetIsKnown
