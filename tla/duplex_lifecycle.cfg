SPECIFICATION FairSpec
CONSTANTS
  Launches = {1, 2}
  Env = {"spawnfail", "readerfail", "ledgerfail", "prune", "reap", "mute"}
INVARIANTS
  SerialNoOrphan
  SerialNoGhostRow
PROPERTIES
  SerialStopKills
  ThreadsEnd
CHECK_DEADLOCK FALSE
