\* A queue of three slots: the cap of two bites, the queue fills up.
CONSTANTS
  a1 = a1
  a2 = a2
  a3 = a3
  a4 = a4
  b1 = b1
  t1 = t1
  A = A
  B = B
  NoOwner = NoOwner
  NoJob = NoJob
  JobID = {a1, a2, a3, b1, t1}
  Client = {A, B}
  MaxSize = 3
  OwnerIP <- MCOwnerIP
SPECIFICATION QueueSpec
INVARIANTS
  TypeOK
  OrderMatchesChannel
  SendNeverBlocks
  NoJobStranded
  InflightExact
  NoClientFillsQueue
PROPERTIES
  PositionNeverGrows
  ImplementsFifo
