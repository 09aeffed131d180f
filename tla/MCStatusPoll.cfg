CONSTANTS
  a1 = a1
  a2 = a2
  t1 = t1
  A = A
  NoOwner = NoOwner
  NoJob = NoJob
  NoPoll = NoPoll
  JobID = {a1, a2, t1}
  Client = {A}
  MaxSize = 2
  OwnerIP <- MCOwnerIP
SPECIFICATION PollSpec
INVARIANTS
  PollTypeOK
  PositionOnlyWhileQueued
PROPERTIES
  RepliesNeverRegress
