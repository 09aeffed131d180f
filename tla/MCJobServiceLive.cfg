\* One job, two racing downloads, one crash, under fairness.
CONSTANTS
  j1 = j1
  z1 = z1
  d1 = d1
  d2 = d2
  NoOwner = NoOwner
  NoJob = NoJob
  NoRequest = NoRequest
  JobID = {j1}
  Multi = {}
  Client = {}
  MaxSize = 1
  Files = 2
  Downloader = {d1, d2}
  Internal = {d2}
  MaxCrashes = 1
  OwnerIP <- MCOwnerIP
SPECIFICATION ServiceFairSpec
INVARIANT HandedOutOnce
PROPERTIES
  DirectoriesRemoved
  JobsForgotten
