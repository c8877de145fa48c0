SPECIFICATION Spec
CONSTANTS
  Users = {"a"}
  Whitelists <- MCOneChat
  Inputs <- MCCancelInputs
  Categories = {}
  QuotedDirs = {}
  Paths = {"/music"}
  DirOf <- MCDirOf
  Feeds = {}
  Templates = {}
  NamedTemplates = {}
  MayFail = {}
  None = None
PROPERTY CancelAborts
