SPECIFICATION LiveSpec
CONSTANTS
  None = None
  Error = Error
  Limit = 2
  Stalls = FALSE
  MayDie = {"bootstrap", "polling"}
  MaxUpdates = 3
  MaxRestarts = 3
  MaxCrashes = 1
  MaxErrors = 1
INVARIANTS TypeOK PulledAgain NothingLost StopIsFinal RepeatsAreFew
PROPERTIES OnlyDrainIgnores StopGetsCloser DeliversInOrder StopEnds EveryUpdateIsHandled
CHECK_DEADLOCK FALSE
