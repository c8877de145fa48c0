SPECIFICATION Spec
CONSTANTS
  None = None
  Chats = {"a", "b", "c"}
  Lists <- TwoLists
  Listings <- TwoTexts
  Limit = 8
  Chunk = 4
  MaxCalls = 2
  Torrents = {s, t}
  Window = 1
  Wanted = {"added", "finished"}
  MaxTime = 2
  MaxRestarts = 1
SYMMETRY Swaps
INVARIANTS TypeOK BeginningInOrder OnlyTheEndIsLost EverySlowIsTold OldTorrentsAreQuiet
PROPERTIES NothingToStrangers
CHECK_DEADLOCK FALSE
