SPECIFICATION FileSpec
CONSTANTS
  app = app
  srv = srv
  boxed = boxed
  hook = hook
  move = move
  Writers = {app, srv, boxed, hook, move}
  Server = {srv, boxed}
  Sandboxed = {boxed, hook}
  Repairers = {move}
  MaxErrors = 2
INVARIANTS
  NoLostUpdate
  FailedNotApplied
  TornHasBackup
CHECK_DEADLOCK FALSE
