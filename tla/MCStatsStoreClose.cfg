\* Both counters, no restart.
CONSTANTS
  files_processed = files_processed
  thanks = thanks
  Key = {files_processed, thanks}
  NoWrite = NoWrite
  NoKey = NoKey
  NoRead = NoRead
  MaxCalls = 2
  MaxLate = 1
  MaxRestarts = 0
SPECIFICATION StatsSpec
INVARIANT CloseFlushesPending
