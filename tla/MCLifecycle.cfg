SPECIFICATION Spec
CONSTANTS
  None = None
  Tokens = {"t", "u"}
  Profiles <- TwoProfiles
  MayFail = {"get_me"}
  MayRaise = {"minimum_speed"}
  Sent <- DialogOrPage
  MaxCores = 2
  MaxPending = 3
  MaxOrphans = 1
INVARIANTS TypeOK NoOrphans AsConfigured EventsFollow OffIsOff
PROPERTIES ServesAsPromised
CHECK_DEADLOCK FALSE
