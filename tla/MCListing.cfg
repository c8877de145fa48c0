SPECIFICATION Spec
CONSTANTS
  None = None
  Chats = {"a", "b", "c"}
  Lists <- TwoLists
  Listings <- OneText
  Limit = 8
  Chunk = 4
  MaxCalls = 1
  Torrents = {t}
  Window = 1
  Wanted = {"added"}
  MaxTime = 1
  MaxRestarts = 0
INVARIANTS ListsAllTorrents
CHECK_DEADLOCK FALSE
