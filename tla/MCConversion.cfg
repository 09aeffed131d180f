\* Lists of at most two pages and three archived files; archives of up to
\* three entries against limits of two files and a total of one, with int64s up
\* to three; commands that write
\* up to three units of output against limits of one and two.
CONSTANTS
  DefaultStdout = 1
  LargeStdout = 2
  MaxStdout = 3
  MaxMergeFiles = 2
  MaxArchiveFiles = 3
  MaxFiles = 2
  MaxTotal = 1
  MaxInt64 = 3
  Request <- MCRequest
  Listing <- MCListing
  VipsSaves = {"jpg", "jpeg", "jpe", "jfif", "png", "webp", "tif", "tiff", "gif", "heic"}
  VipsCompresses = {"png"}
SPECIFICATION ConvSpec
CHECK_DEADLOCK FALSE
INVARIANTS
  ConvTypeOK
  OutputTrue
  SucceedsExactlyOutsideGaps
  RefusedLeavesNothing
  OnlyLongNamesSearch
  AcceptedIsComplete
  StdoutWhole
  OnlyListedWithinLimits
PROPERTIES
  ConversionReturns
