SPECIFICATION Spec
CONSTANTS
  Users = {"a", "b"}
  Whitelists <- MCOneChat
  Inputs <- MCAddInputs
  Categories = {"Music"}
  QuotedDirs = {"~/new"}
  Paths = {"/music"}
  DirOf <- MCDirOf
  Feeds = {"Music"}
  Templates = {}
  NamedTemplates = {}
  MayFail = {"reply", "mkdir", "label", "deluge", "fetch", "norss", "nofeeds"}
  None = None
INVARIANT OnlyWhitelistedConverse
