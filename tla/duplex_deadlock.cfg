SPECIFICATION FairSpec
CONSTANTS
  Launches = {1, 2}
  Env = {}
PROPERTIES
  KilledLaunchReports
CHECK_DEADLOCK FALSE
