\* A zip download that the cleaner overtakes.
CONSTANTS
  j1 = j1
  z1 = z1
  d1 = d1
  d2 = d2
  NoOwner = NoOwner
  NoJob = NoJob
  NoRequest = NoRequest
  JobID = {z1}
  Multi = {z1}
  Client = {}
  MaxSize = 1
  Files = 2
  Downloader = {d1}
  Internal = {}
  MaxCrashes = 0
  OwnerIP <- MCOwnerIP
SPECIFICATION ServiceSpec
INVARIANT ZipIsComplete
