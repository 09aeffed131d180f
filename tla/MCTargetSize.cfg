\* Input of one and a half to four times the target; encodings around it.
CONSTANTS
  Target = 100
  InputSizes = {150, 400}
  OutSizes = {40, 80, 95, 105, 130}
SPECIFICATION TargetSpec
CHECK_DEADLOCK FALSE
INVARIANTS
  TargetMetOnDisk
