SPECIFICATION LiveSpec
CONSTANTS
  Users = {"a"}
  Whitelists <- MCOneChat
  Inputs <- MCFewInputs
  Categories = {".torrent"}
  QuotedDirs = {}
  Paths = {"/music"}
  DirOf <- MCDirOf
  Feeds = {".torrent"}
  Templates = {".torrent"}
  NamedTemplates = {".torrent"}
  MayFail = {}
  None = None
PROPERTY ConversationEnds
