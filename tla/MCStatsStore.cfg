\* One counter, a late write, a restart.
CONSTANTS
  files_processed = files_processed
  thanks = thanks
  Key = {files_processed}
  NoWrite = NoWrite
  NoKey = NoKey
  NoRead = NoRead
  MaxCalls = 2
  MaxLate = 1
  MaxRestarts = 1
SPECIFICATION StatsFairSpec
INVARIANTS
  StatsTypeOK
  NeverOvercounts
  NothingLost
PROPERTY CountsReachService
