\* One single-file job and one multi-file job, one download at a time, one crash.
CONSTANTS
  j1 = j1
  z1 = z1
  d1 = d1
  d2 = d2
  NoOwner = NoOwner
  NoJob = NoJob
  NoRequest = NoRequest
  JobID = {j1, z1}
  Multi = {z1}
  Client = {}
  MaxSize = 1
  Files = 2
  Downloader = {d1}
  Internal = {}
  MaxCrashes = 1
  OwnerIP <- MCOwnerIP
SPECIFICATION ServiceSpec
INVARIANTS
  ServiceTypeOK
  DoneJobDownloadable
  LiveJobKeepsInput
