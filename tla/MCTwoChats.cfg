SPECIFICATION HSpec
CONSTANTS
  Users = {"a", "b"}
  Whitelists <- MCEverybody
  Inputs <- MCTwoChatsInputs
  Categories = {"Music"}
  QuotedDirs = {}
  Paths = {"/music"}
  DirOf <- MCDirOf
  Feeds = {}
  Templates = {}
  NamedTemplates = {}
  MayFail = {"reply", "fetch", "deluge", "label"}
  None = None
INVARIANTS HTypeOK ChoicesKept 
