CONSTANTS
  N = 2
  MaxJobs = 1
SPECIFICATION Spec
PROPERTIES ServerExits
CHECK_DEADLOCK FALSE
