SPECIFICATION FairSpec
CONSTANTS
  f = f
  g = g
  d = d
  Files = {f, g}
  Dirs = {d}
  ManifestFile = ManifestFile
  Above <- MCAbove
  Selected = {f, d}
  Excluded = {}
  Scheduler = Scheduler
  Users = {u1, u2}
  UserFiles = {g}
  Replicas = {r1}
  Idle = Idle
  Torn = Torn
  NoValue = NoValue
  MaxListed = 3
  MaxFailures = 1
  MaxCrashes = 1
INVARIANTS AckedAreListed
PROPERTIES NeverOlder SelectedGetsStored
CHECK_DEADLOCK FALSE
