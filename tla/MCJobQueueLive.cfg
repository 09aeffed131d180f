\* The same queue with four uploads, under fairness.
CONSTANTS
  a1 = a1
  a2 = a2
  a3 = a3
  a4 = a4
  b1 = b1
  t1 = t1
  A = A
  B = B
  NoOwner = NoOwner
  NoJob = NoJob
  JobID = {a1, a2, a3, b1}
  Client = {A, B}
  MaxSize = 2
  OwnerIP <- MCOwnerIP
SPECIFICATION QueueFairSpec
PROPERTIES
  JobsFinish
  SlotsComeBack
