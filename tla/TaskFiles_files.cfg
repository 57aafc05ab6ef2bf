SPECIFICATION FilesSpec
CONSTANTS
  TaskRuns = {1, 2}
  Weight <- MCWeight
  Sub = {2}
  Referenced = {2}
  CaptureMax = 1
  Caps <- MCCaps
  MaxWrites = 2
CHECK_DEADLOCK FALSE

  
  
PROPERTIES
  RetentionIsExact
